---- MODULE Spec2Model ----
(***************************************************************************)
(* A model of the web page analyzer (package analyzer of home24):         *)
(*   - DefaultLinkChecker.CheckLinksConcurrently, the bounded-parallelism  *)
(*     link checker (link_checker.go);                                     *)
(*   - PageAnalyzer.processLinks, the link pipeline of the parallel        *)
(*     analyzer (analyzer.go);                                             *)
(*   - DefaultPageAnalyzer.Analyze / fetchPage, and Analyze of the two     *)
(*     PageAnalyzer variants (sequential and parallel).                    *)
(* The HTTP client, the URL parser and the HTML parser are collaborators:  *)
(* their answers are the environment's choice, constrained only by what    *)
(* their documentation guarantees (an unparsable URL yields an error, a    *)
(* request under a cancelled context yields an error, a URL without an     *)
(* http/https scheme cannot be sent).                                      *)
(***************************************************************************)
EXTENDS Integers, Sequences, FiniteSets, Bags, TLC

\* ------------------------------------------------------------------ bounds
\* Longest link list handed to CheckLinksConcurrently.
MaxLinks == 3
\* Largest MaxConcurrentLinks the configuration is drawn from.
MaxSlots == 2
\* Longest link list of a page handed to processLinks when the gate of the
\* parallel analyzer is examined (one more than its ten slots).
MaxGateLinks == 11
\* Longest link list of a page that Analyze fetches.
MaxPageLinks == 2
\* Largest RetryAttempts the configuration is drawn from.
MaxRetry == 3

\* ------------------------------------------------------ program constants
\* semaphore := make(chan struct{}, 10) in PageAnalyzer.processLinks.
ProcessLinksSlots == 10
\* linkChan := make(chan LinkInfo, 100) in PageAnalyzer.Analyze.
LinkChanCap == 100

\* ------------------------------------------------------- URLs and probes
\* net/url.Parse on the URL strings the model uses: whether it fails, and
\* the Scheme and Host of the parsed URL.
UrlParse(s) ==
  CASE s = "http://a.test/"    -> [err |-> FALSE, Scheme |-> "http",  Host |-> "a.test"]
    [] s = "https://a.test/"   -> [err |-> FALSE, Scheme |-> "https", Host |-> "a.test"]
    [] s = "ftp://a.test/"     -> [err |-> FALSE, Scheme |-> "ftp",   Host |-> "a.test"]
    [] s = "a.test/page"       -> [err |-> FALSE, Scheme |-> "",      Host |-> ""]
    [] s = "http://a.test/%zz" -> [err |-> TRUE,  Scheme |-> "",      Host |-> ""]
    [] s = "http://a.test/ok"  -> [err |-> FALSE, Scheme |-> "http",  Host |-> "a.test"]
    [] s = "http://b.test/x"   -> [err |-> FALSE, Scheme |-> "http",  Host |-> "b.test"]
    [] s = "/about"            -> [err |-> FALSE, Scheme |-> "",      Host |-> ""]
    [] s = "%zz"               -> [err |-> TRUE,  Scheme |-> "",      Host |-> ""]
    [] s = "http://A.test/ok"  -> [err |-> FALSE, Scheme |-> "http",  Host |-> "A.test"]
    [] s = "mailto:x@b.test"   -> [err |-> FALSE, Scheme |-> "mailto", Host |-> ""]
    [] s = "javascript:void(0)" -> [err |-> FALSE, Scheme |-> "javascript", Host |-> ""]
    [] s = "#top"              -> [err |-> FALSE, Scheme |-> "",      Host |-> ""]
    [] s = ""                  -> [err |-> FALSE, Scheme |-> "",      Host |-> ""]
    [] OTHER                   -> [err |-> TRUE,  Scheme |-> "",      Host |-> ""]

\* The final status codes a server may answer with.
Statuses == {200, 301, 404, 503}

\* The outcome of a probe is a status code, or TransportErr when client.Do
\* returns an error.
TransportErr == 0

\* http.NewRequestWithContext fails exactly when the URL does not parse.
NewRequestFails(urlStr) == UrlParse(urlStr).err

\* client.Do(req): what the call may return.  A request whose context is
\* cancelled returns an error; so does a URL whose scheme the transport does
\* not support; otherwise the server's answer is the environment's choice.
DoOutcomes(cancelled, urlStr) ==
  IF cancelled \/ UrlParse(urlStr).Scheme \notin {"http", "https"}
    THEN {TransportErr}
    ELSE {TransportErr} \cup Statuses

\* The status test of DefaultLinkChecker.CheckAccessibility.
HeadAccessible(outcome) == outcome /= TransportErr /\ outcome >= 200 /\ outcome < 400

\* ------------------------------------------------------------------ state
VARIABLES
  config,      \* AnalyzerConfig: [MaxConcurrentLinks, RetryAttempts]
  ctxDone,     \* the caller's context has been cancelled
  \* --- DefaultLinkChecker.CheckLinksConcurrently
  lcLinks,     \* the links argument
  lcNext,      \* index of the next link the for loop spawns a goroutine for
  lcMain,      \* position of the caller: "idle", "loop", "returned"
  lcPc,        \* position of each spawned goroutine
  lcAcc,       \* each goroutine's local isAccessible (FALSE outside its scope)
  semaphore,   \* number of tokens in the semaphore channel
  mu,          \* holder of the mutex (0: unlocked)
  results,     \* the results map, URL -> BOOLEAN
  wg,          \* the WaitGroup counter
  lcAtCancel,  \* history: whether some check was inside its probe, and some
               \* still short of a slot, when the context was cancelled
  \* --- PageAnalyzer (parallel): collectLinks -> linkChan -> processLinks
  plLinks,     \* the links collectLinks finds, in document order
  plSent,      \* how many of them collectLinks has sent on linkChan
  plRecv,      \* how many of them processLinks has received
  plClosed,    \* close(linkChan) has run (the collector goroutine is done)
  plProc,      \* position of processLinks: "idle", "range", "acquire", "wait", "done"
  plSem,       \* number of tokens in processLinks' semaphore channel
  plWg,        \* processLinks' WaitGroup counter
  plW,         \* the link goroutines: a bag of <<stage, URL, isAccessible>>
  presult,     \* the shared result: InternalLinks, ExternalLinks, InaccessibleLinks
  plFalse,     \* how many calls of checkLinkAccessibility have returned false
  \* --- Analyze (DefaultPageAnalyzer and the two PageAnalyzer variants)
  variant,     \* "default", "sequential", "parallel" ("none": no Analyze call)
  targetURL,   \* the targetURL / urlStr argument
  ctxAtCall,   \* history: the context was already cancelled at the call
  apc,         \* the phase Analyze is in
  attempt,     \* fetchPage's loop variable i
  gets,        \* history: page GET requests handed to client.Do
  sleeps,      \* history: the backoff waits started, in seconds
  fetchStatus, \* the status of resp after the latest client.Do (0: nil)
  aLinks,      \* links, as ExtractLinks returned them
  aIdx,        \* index of the next link the check loop visits
  linkResults, \* the linkResults map, URL -> BOOLEAN
  checkLog,    \* history: what CheckAccessibility returned for each link
  result,      \* the *AnalysisResult Analyze returns
  err,         \* the error Analyze returns
  metrics,     \* the collectors: requests counted, errors counted, durations observed
  \* --- one accessibility probe (CheckAccessibility / checkLinkAccessibility)
  prChecker,   \* whose probe: "DefaultLinkChecker", "PageAnalyzer" ("none": no probe)
  prURL,       \* the urlStr argument
  prHead,      \* what client.Do answers to a HEAD request for prURL
  prGet,       \* what client.Do answers to a GET request for prURL
  prPc,        \* position of the probe: "idle", "called", "head", "get", "returned"
  prRequests,  \* history: the methods of the requests handed to client.Do
  prResult,    \* the value the probe returned
  \* --- a parsed document and what is extracted from it
  doc,         \* the *html.Node tree: nodes in creation order, each with its parent
  exPc,        \* position in the extraction calls of DefaultPageAnalyzer.Analyze
  exTitle,     \* title
  exHeadings,  \* headings
  exHTMLVersion, \* htmlVersion
  exHasLoginForm, \* hasLoginForm
  exBase,      \* the page's URL, which ExtractLinks resolves against
  exLinks,     \* links
  \* --- PageAnalyzer.analyzeNodeParallel (the parallel DOM walk)
  wPc,         \* position of the analyzeNodeParallel call of each node: "unborn",
               \* "start", "locked", "read", "form" (unlocked, before go analyzeForm),
               \* "wait" (in the loop over the children, or at wg.Wait()), "done"
  wTmp,        \* the heading count each call has read and not yet written back
  wFormPc,     \* position of the analyzeForm goroutine of each form node
  wSeen,       \* what each analyzeForm goroutine read in result.HasLoginForm
  wResult,     \* the shared result: HeadingCount, Title, HTMLVersion, HasLoginForm
  wFatal,      \* the runtime has stopped the program (concurrent map writes)
  \* --- Router.analyzeHandler
  hPc,         \* position of the handler: "idle", "received", "analyzing", "responded"
  hReq,        \* the request: method, whether its form parses, the form field url
  hResp,       \* the response the handler wrote: status, page, message
  \* --- DefaultLinkChecker.CheckWithRetry and RetryWithBackoff
  rFn,         \* which of the two is running ("none": neither)
  rURL,        \* the urlStr argument of CheckWithRetry
  rPc,         \* position: "idle", "loop", "wait", "returned"
  rI,          \* the loop variable i
  rLast,       \* isAccessible, or lastErr
  rCalls,      \* history: what each CheckAccessibility call, or each fn(), returned
  rWaits,      \* history: the backoff waits that ran to their end, in seconds
  rRet         \* the value returned

envVars == <<config, ctxDone>>
lcVars == <<lcLinks, lcNext, lcMain, lcPc, lcAcc, semaphore, mu, results, wg, lcAtCancel>>
plVars == <<plLinks, plSent, plRecv, plClosed, plProc, plSem, plWg, plW, presult, plFalse>>
anVars == <<variant, targetURL, ctxAtCall, apc, attempt, gets, sleeps, fetchStatus,
            aLinks, aIdx, linkResults, checkLog, result, err, metrics>>
prVars == <<prChecker, prURL, prHead, prGet, prPc, prRequests, prResult>>
exVars == <<exPc, exTitle, exHeadings, exHTMLVersion, exHasLoginForm, exBase, exLinks>>
wkVars == <<wPc, wTmp, wFormPc, wSeen, wResult, wFatal>>
hdVars == <<hPc, hReq, hResp>>
rtVars == <<rFn, rURL, rPc, rI, rLast, rCalls, rWaits, rRet>>
fnVars == <<prVars, doc, exVars, wkVars, hdVars, rtVars>>
vars == <<envVars, lcVars, plVars, anVars, fnVars>>

\* No probe is under way.
ProbeIdle ==
  /\ prChecker = "none"
  /\ prURL = ""
  /\ prHead = 0
  /\ prGet = 0
  /\ prPc = "idle"
  /\ prRequests = <<>>
  /\ prResult = FALSE

\* No document is being examined by the extraction calls.
ExtractIdle ==
  /\ exPc = "idle"
  /\ exTitle = <<>>
  /\ exHeadings = <<>>
  /\ exHTMLVersion = ""
  /\ exHasLoginForm = FALSE
  /\ exBase = ""
  /\ exLinks = <<>>

\* No parallel DOM walk is under way.
WalkIdle ==
  /\ wPc = <<>>
  /\ wTmp = <<>>
  /\ wFormPc = <<>>
  /\ wSeen = <<>>
  /\ wResult = [HeadingCount |-> <<>>, Title |-> <<>>, HTMLVersion |-> "Unknown",
                HasLoginForm |-> FALSE]
  /\ wFatal = FALSE

\* A response of the handler: the status, the page rendered or the target
\* of the redirect, and the error message shown.
Response(status, page, message) == [status |-> status, page |-> page, message |-> message]
NoResponse == Response(0, "", "")

\* No request is being handled.
HandlerIdle ==
  /\ hPc = "idle"
  /\ hReq = [method |-> "", formOk |-> FALSE, url |-> ""]
  /\ hResp = NoResponse

\* Neither retry loop is running.
RetryIdle ==
  /\ rFn = "none"
  /\ rURL = ""
  /\ rPc = "idle"
  /\ rI = 0
  /\ rLast = FALSE
  /\ rCalls = <<>>
  /\ rWaits = <<>>
  /\ rRet = FALSE

\* The probes, the extraction, the DOM walk, the handler and the retry loops
\* are all at rest.
FnIdle == ProbeIdle /\ doc = <<>> /\ ExtractIdle /\ WalkIdle /\ HandlerIdle /\ RetryIdle

\* The URLs CheckLinksConcurrently is given.
LCUrls == {"http://a.test/ok", "%zz"}

LinkInfo(u, internal) == [URL |-> u, IsInternal |-> internal]

\* Sequences over S of length at most n.
SeqsUpTo(S, n) == UNION {[1..k -> S] : k \in 0..n}

Workers == 1..Len(lcLinks)

\* Goroutines inside the call c.CheckAccessibility(ctx, l.URL).
InCheck == {w \in Workers : lcPc[w] = "head"}

\* ----------------------------------------- CheckLinksConcurrently (64-87)
\* A plausible slip: the gate admits one caller too many.
CanAcquireOffByOne(held, capacity) == held <= capacity

\* semaphore <- struct{}{} can proceed while the channel has room.
CanAcquire(held, capacity) == held < capacity

\* <-semaphore takes one token back.
ReleaseSlot(held) == held - 1

\* The link lists CheckLinksConcurrently is called with: every choice of how
\* many usable and how many unparsable URLs, up to MaxLinks in all.
LCInputs ==
  {s \in SeqsUpTo({LinkInfo(u, TRUE) : u \in LCUrls}, MaxLinks) :
     \A i \in 1..Len(s) : \A j \in i..Len(s) :
        NewRequestFails(s[i].URL) => NewRequestFails(s[j].URL)}

LCInit ==
  /\ lcLinks \in LCInputs
  /\ lcNext = 1
  /\ lcMain = "loop"
  /\ lcPc = [w \in 1..Len(lcLinks) |-> "idle"]
  /\ lcAcc = [w \in 1..Len(lcLinks) |-> FALSE]
  /\ semaphore = 0
  /\ mu = 0
  /\ results = <<>>
  /\ wg = 0
  /\ lcAtCancel = [inFlight |-> FALSE, queued |-> FALSE]

\* No call of CheckLinksConcurrently is under way.
LCIdle ==
  /\ lcLinks = <<>>
  /\ lcNext = 1
  /\ lcMain = "idle"
  /\ lcPc = <<>>
  /\ lcAcc = <<>>
  /\ semaphore = 0
  /\ mu = 0
  /\ results = <<>>
  /\ wg = 0
  /\ lcAtCancel = [inFlight |-> FALSE, queued |-> FALSE]

\* for _, link := range links { wg.Add(1); go func(l LinkInfo) {...}(link) }
LCSpawn ==
  /\ lcMain = "loop"
  /\ lcNext <= Len(lcLinks)
  /\ wg' = wg + 1
  /\ lcPc' = [lcPc EXCEPT ![lcNext] = "sem"]
  /\ lcNext' = lcNext + 1
  /\ UNCHANGED <<config, ctxDone, lcLinks, lcMain, lcAcc, semaphore, mu, results, lcAtCancel, plVars, anVars, fnVars>>

\* The map after results[key] = value.
MapPut(m, key, value) ==
  [k \in DOMAIN m \cup {key} |-> IF k = key THEN value ELSE m[k]]

\* semaphore <- struct{}{}, then CheckAccessibility lines 28-35: build the
\* HEAD request; on failure return false, otherwise hand it to client.Do.
LCAcquire(w) ==
  /\ lcPc[w] = "sem"
  /\ CanAcquire(semaphore, config.MaxConcurrentLinks)
  /\ semaphore' = semaphore + 1
  /\ IF NewRequestFails(lcLinks[w].URL)
       THEN /\ lcAcc' = [lcAcc EXCEPT ![w] = FALSE]
            /\ lcPc' = [lcPc EXCEPT ![w] = "lock"]
       ELSE /\ lcPc' = [lcPc EXCEPT ![w] = "head"]
            /\ UNCHANGED lcAcc
  /\ UNCHANGED <<config, ctxDone, lcLinks, lcNext, lcMain, mu, results, wg, lcAtCancel, plVars, anVars, fnVars>>

\* A plausible slip: the request is built without the caller's context.
HeadOutcomesNoCtx(w) == DoOutcomes(FALSE, lcLinks[w].URL)

\* CheckAccessibility, lines 28 and 35: the request carries ctx, so this is
\* what client.Do may return for goroutine w.
HeadOutcomes(w) == DoOutcomes(ctxDone, lcLinks[w].URL)

\* CheckAccessibility, lines 35-42: client.Do returns; the call returns
\* false on error and the status test otherwise.
LCHeadReturn(w) ==
  /\ lcPc[w] = "head"
  /\ \E o \in HeadOutcomes(w) :
       lcAcc' = [lcAcc EXCEPT ![w] = HeadAccessible(o)]
  /\ lcPc' = [lcPc EXCEPT ![w] = "lock"]
  /\ UNCHANGED <<config, ctxDone, lcLinks, lcNext, lcMain, semaphore, mu, results, wg, lcAtCancel, plVars, anVars, fnVars>>

\* A plausible slip: the map is written without taking the lock.
LCLockNoMutex(w) ==
  /\ lcPc[w] = "lock"
  /\ mu' = w
  /\ results' = MapPut(results, lcLinks[w].URL, lcAcc[w])
  /\ lcPc' = [lcPc EXCEPT ![w] = "cs"]
  /\ UNCHANGED <<config, ctxDone, lcLinks, lcNext, lcMain, lcAcc, semaphore, wg, lcAtCancel, plVars, anVars, fnVars>>

\* mu.Lock(); results[l.URL] = isAccessible
LCLock(w) ==
  /\ lcPc[w] = "lock"
  /\ mu = 0
  /\ mu' = w
  /\ results' = MapPut(results, lcLinks[w].URL, lcAcc[w])
  /\ lcPc' = [lcPc EXCEPT ![w] = "cs"]
  /\ UNCHANGED <<config, ctxDone, lcLinks, lcNext, lcMain, lcAcc, semaphore, wg, lcAtCancel, plVars, anVars, fnVars>>

\* mu.Unlock()
LCUnlock(w) ==
  /\ lcPc[w] = "cs"
  /\ mu' = 0
  /\ lcPc' = [lcPc EXCEPT ![w] = "rel"]
  /\ UNCHANGED <<config, ctxDone, lcLinks, lcNext, lcMain, lcAcc, semaphore, results, wg, lcAtCancel, plVars, anVars, fnVars>>

\* A plausible slip: the slot goes back only after a successful check.
LCReleaseOnSuccess(w) ==
  /\ lcPc[w] = "rel"
  /\ semaphore' = IF results[lcLinks[w].URL] THEN ReleaseSlot(semaphore) ELSE semaphore
  /\ lcAcc' = [lcAcc EXCEPT ![w] = FALSE]
  /\ lcPc' = [lcPc EXCEPT ![w] = "fin"]
  /\ UNCHANGED <<config, ctxDone, lcLinks, lcNext, lcMain, mu, results, wg, lcAtCancel, plVars, anVars, fnVars>>

\* c.log.LogLinkCheck(...) is the last use of isAccessible; the function
\* body ends and the deferred func() { <-semaphore }() runs.
LCRelease(w) ==
  /\ lcPc[w] = "rel"
  /\ semaphore' = ReleaseSlot(semaphore)
  /\ lcAcc' = [lcAcc EXCEPT ![w] = FALSE]
  /\ lcPc' = [lcPc EXCEPT ![w] = "fin"]
  /\ UNCHANGED <<config, ctxDone, lcLinks, lcNext, lcMain, mu, results, wg, lcAtCancel, plVars, anVars, fnVars>>

\* the deferred wg.Done()
LCDone(w) ==
  /\ lcPc[w] = "fin"
  /\ wg' = wg - 1
  /\ lcPc' = [lcPc EXCEPT ![w] = "done"]
  /\ UNCHANGED <<config, ctxDone, lcLinks, lcNext, lcMain, lcAcc, semaphore, mu, results, lcAtCancel, plVars, anVars, fnVars>>

\* wg.Wait(); return results
LCReturn ==
  /\ lcMain = "loop"
  /\ lcNext > Len(lcLinks)
  /\ wg = 0
  /\ lcMain' = "returned"
  /\ UNCHANGED <<config, ctxDone, lcLinks, lcNext, lcPc, lcAcc, semaphore, mu, results, wg, lcAtCancel, plVars, anVars, fnVars>>

\* The caller's context is cancelled while CheckLinksConcurrently runs.
LCCancel ==
  /\ ~ctxDone
  /\ lcMain = "loop"
  /\ ctxDone' = TRUE
  /\ lcAtCancel' = [inFlight |-> InCheck /= {},
                    queued   |-> \E w \in Workers : lcPc[w] \in {"idle", "sem"}]
  /\ UNCHANGED <<config, lcLinks, lcNext, lcMain, lcPc, lcAcc, semaphore, mu, results, wg, plVars, anVars, fnVars>>

LCWorker(w) ==
  \/ LCAcquire(w)
  \/ LCHeadReturn(w)
  \/ LCLock(w)
  \/ LCUnlock(w)
  \/ LCRelease(w)
  \/ LCDone(w)

LCNext ==
  \/ LCSpawn
  \/ \E w \in Workers : LCAcquire(w)
  \/ \E w \in Workers : LCHeadReturn(w)
  \/ \E w \in Workers : LCLock(w)
  \/ \E w \in Workers : LCUnlock(w)
  \/ \E w \in Workers : LCRelease(w)
  \/ \E w \in Workers : LCDone(w)
  \/ LCReturn
  \/ LCCancel

\* ------------------------------------------------ URL resolution of a link
\* baseURL.Parse(href): the href resolved against the page's URL.  An href
\* with a scheme keeps its own host; one without takes the base's.
ResolveReference(base, href) ==
  IF UrlParse(href).err
    THEN [err |-> TRUE, Scheme |-> "", Host |-> ""]
    ELSE IF UrlParse(href).Scheme /= ""
      THEN UrlParse(href)
      ELSE [err |-> FALSE, Scheme |-> UrlParse(base).Scheme, Host |-> UrlParse(base).Host]

\* A plausible slip: a link without a host is not taken for internal.
IsInternalLinkSameHostOnly(base, href) ==
  ResolveReference(base, href).Host = UrlParse(base).Host

\* isInternal := linkURL.Host == "" || linkURL.Host == baseURL.Host
IsInternalLink(base, href) ==
  \/ ResolveReference(base, href).Host = ""
  \/ ResolveReference(base, href).Host = UrlParse(base).Host

\* The hrefs of the pages the model serves.
PageHrefs == {"http://a.test/ok", "http://b.test/x", "/about"}

\* The link records extraction yields for a list of hrefs: the raw href and
\* the internal flag.
LinkRecords(base, hrefs) ==
  [i \in 1..Len(hrefs) |-> LinkInfo(hrefs[i], IsInternalLink(base, hrefs[i]))]

\* ------------------------------- PageAnalyzer.processLinks (parallel variant)
\* Every step of the pipeline is a step of a goroutine of the process: it is
\* taken only while the runtime has not ended the process (~wFatal).
\* PageAnalyzer.checkLinkAccessibility: the result for a HEAD outcome h and,
\* when the HEAD did not answer 200, a GET outcome g.
checkLinkAccessibility(h, g) ==
  IF h = TransportErr THEN FALSE
  ELSE IF h = 200 THEN TRUE
  ELSE IF g = TransportErr THEN FALSE
  ELSE g >= 200 /\ g < 300

\* What a call checkLinkAccessibility(ctx, urlStr) may return.
LinkCheckResults(cancelled, urlStr) ==
  IF NewRequestFails(urlStr)
    THEN {FALSE}
    ELSE {checkLinkAccessibility(h, g) :
            h \in DoOutcomes(cancelled, urlStr), g \in DoOutcomes(cancelled, urlStr)}

\* A link goroutine: the stage it is at, the link it was given, its local
\* isAccessible.
Goroutine(stage, link, acc) == [stage |-> stage, link |-> link, acc |-> acc]

\* A goroutine past the counter update no longer reads its link or result.
Spent(stage) == Goroutine(stage, LinkInfo("", FALSE), FALSE)

\* The bag b with one copy of goroutine from replaced by to.
BagMove(b, from, to) == (b (-) SetToBag({from})) (+) SetToBag({to})

\* Number of goroutines of bag b at one of the stages.
AtStage(b, stages) ==
  BagCardinality([e \in {x \in DOMAIN b : x.stage \in stages} |-> b[e]])

\* Link goroutines inside the call a.checkLinkAccessibility(ctx, l.URL).
PLInCheck == AtStage(plW, {"check"})

\* No processLinks pipeline is running.
PLIdle ==
  /\ plLinks = <<>>
  /\ plSent = 0
  /\ plRecv = 0
  /\ plClosed = FALSE
  /\ plProc = "idle"
  /\ plSem = 0
  /\ plWg = 0
  /\ plW = EmptyBag
  /\ presult = [InternalLinks |-> 0, ExternalLinks |-> 0, InaccessibleLinks |-> 0]
  /\ plFalse = 0

\* The pipeline as Analyze starts it (analyzer.go 116-134) for a page with
\* the given links: both goroutines spawned, nothing sent yet.
PLStarted(links) ==
  /\ plLinks = links
  /\ plSent = 0
  /\ plRecv = 0
  /\ plClosed = FALSE
  /\ plProc = "range"
  /\ plSem = 0
  /\ plWg = 0
  /\ plW = EmptyBag
  /\ presult = [InternalLinks |-> 0, ExternalLinks |-> 0, InaccessibleLinks |-> 0]
  /\ plFalse = 0

\* collectLinks: linkChan <- LinkInfo{...}; blocks while the buffer is full.
PLSend ==
  /\ ~wFatal
  /\ plProc /= "idle"
  /\ ~plClosed
  /\ plSent < Len(plLinks)
  /\ plSent - plRecv < LinkChanCap
  /\ plSent' = plSent + 1
  /\ UNCHANGED <<plLinks, plRecv, plClosed, plProc, plSem, plWg, plW, presult, plFalse>>
  /\ UNCHANGED <<envVars, lcVars, fnVars, anVars>>

\* collectLinks has returned: close(linkChan); wg.Done()
PLClose ==
  /\ ~wFatal
  /\ plProc /= "idle"
  /\ ~plClosed
  /\ plSent = Len(plLinks)
  /\ plClosed' = TRUE
  /\ UNCHANGED <<plLinks, plSent, plRecv, plProc, plSem, plWg, plW, presult, plFalse>>
  /\ UNCHANGED <<envVars, lcVars, fnVars, anVars>>

\* for link := range linkChan { wg.Add(1) ...
PLRecv ==
  /\ ~wFatal
  /\ plProc = "range"
  /\ plRecv < plSent
  /\ plRecv' = plRecv + 1
  /\ plWg' = plWg + 1
  /\ plProc' = "acquire"
  /\ UNCHANGED <<plLinks, plSent, plClosed, plSem, plW, presult, plFalse>>
  /\ UNCHANGED <<envVars, lcVars, fnVars, anVars>>

\* ... semaphore <- struct{}{}; go func(l LinkInfo) {...}(link) }
PLSpawn ==
  /\ ~wFatal
  /\ plProc = "acquire"
  /\ CanAcquire(plSem, ProcessLinksSlots)
  /\ plSem' = plSem + 1
  /\ plW' = plW (+) SetToBag({Goroutine("check", plLinks[plRecv], FALSE)})
  /\ plProc' = "range"
  /\ UNCHANGED <<plLinks, plSent, plRecv, plClosed, plWg, presult, plFalse>>
  /\ UNCHANGED <<envVars, lcVars, fnVars, anVars>>

\* The range loop ends once linkChan is closed and drained.
PLRangeEnd ==
  /\ ~wFatal
  /\ plProc = "range"
  /\ plRecv = plSent
  /\ plClosed
  /\ plProc' = "wait"
  /\ UNCHANGED <<plLinks, plSent, plRecv, plClosed, plSem, plWg, plW, presult, plFalse>>
  /\ UNCHANGED <<envVars, lcVars, fnVars, anVars>>

\* isAccessible := a.checkLinkAccessibility(ctx, l.URL) returns.
PLCheckReturn(g) ==
  /\ ~wFatal
  /\ g.stage = "check"
  /\ \E acc \in LinkCheckResults(ctxDone, g.link.URL) :
       /\ plW' = BagMove(plW, g, Goroutine("lock", g.link, acc))
       /\ plFalse' = plFalse + (IF acc THEN 0 ELSE 1)
  /\ UNCHANGED <<plLinks, plSent, plRecv, plClosed, plProc, plSem, plWg, presult>>
  /\ UNCHANGED <<envVars, lcVars, fnVars, anVars>>

\* A plausible slip: a link is classified only when its check succeeded.
CountLinkAccessibleOnly(r, link, acc) ==
  [InternalLinks     |-> r.InternalLinks + (IF acc /\ link.IsInternal THEN 1 ELSE 0),
   ExternalLinks     |-> r.ExternalLinks + (IF acc /\ ~link.IsInternal THEN 1 ELSE 0),
   InaccessibleLinks |-> r.InaccessibleLinks + (IF acc THEN 0 ELSE 1)]

\* The counters after the critical section of lines 220-227.
CountLink(r, link, acc) ==
  [InternalLinks     |-> r.InternalLinks + (IF link.IsInternal THEN 1 ELSE 0),
   ExternalLinks     |-> r.ExternalLinks + (IF link.IsInternal THEN 0 ELSE 1),
   InaccessibleLinks |-> r.InaccessibleLinks + (IF acc THEN 0 ELSE 1)]

\* mutex.Lock(); update the counts
PLLock(g) ==
  /\ ~wFatal
  /\ g.stage = "lock"
  /\ AtStage(plW, {"cs"}) = 0
  /\ presult' = CountLink(presult, g.link, g.acc)
  /\ plW' = BagMove(plW, g, Spent("cs"))
  /\ UNCHANGED <<plLinks, plSent, plRecv, plClosed, plProc, plSem, plWg, plFalse>>
  /\ UNCHANGED <<envVars, lcVars, fnVars, anVars>>

\* mutex.Unlock()
PLUnlock(g) ==
  /\ ~wFatal
  /\ g.stage = "cs"
  /\ plW' = BagMove(plW, g, Spent("rel"))
  /\ UNCHANGED <<plLinks, plSent, plRecv, plClosed, plProc, plSem, plWg, presult, plFalse>>
  /\ UNCHANGED <<envVars, lcVars, fnVars, anVars>>

\* the deferred func() { <-semaphore }()
PLRelease(g) ==
  /\ ~wFatal
  /\ g.stage = "rel"
  /\ plSem' = ReleaseSlot(plSem)
  /\ plW' = BagMove(plW, g, Spent("fin"))
  /\ UNCHANGED <<plLinks, plSent, plRecv, plClosed, plProc, plWg, presult, plFalse>>
  /\ UNCHANGED <<envVars, lcVars, fnVars, anVars>>

\* the deferred wg.Done(); the goroutine ends
PLDone(g) ==
  /\ ~wFatal
  /\ g.stage = "fin"
  /\ plWg' = plWg - 1
  /\ plW' = plW (-) SetToBag({g})
  /\ UNCHANGED <<plLinks, plSent, plRecv, plClosed, plProc, plSem, presult, plFalse>>
  /\ UNCHANGED <<envVars, lcVars, fnVars, anVars>>

\* wg.Wait() of processLinks returns; processLinks returns.
PLWaitDone ==
  /\ ~wFatal
  /\ plProc = "wait"
  /\ plWg = 0
  /\ plProc' = "done"
  /\ UNCHANGED <<plLinks, plSent, plRecv, plClosed, plSem, plWg, plW, presult, plFalse>>
  /\ UNCHANGED <<envVars, lcVars, fnVars, anVars>>

PLGoroutine(g) ==
  \/ PLCheckReturn(g)
  \/ PLLock(g)
  \/ PLUnlock(g)
  \/ PLRelease(g)
  \/ PLDone(g)

PLNext ==
  \/ PLSend
  \/ PLClose
  \/ PLRecv
  \/ PLSpawn
  \/ PLRangeEnd
  \/ \E g \in BagToSet(plW) : PLCheckReturn(g)
  \/ \E g \in BagToSet(plW) : PLLock(g)
  \/ \E g \in BagToSet(plW) : PLUnlock(g)
  \/ \E g \in BagToSet(plW) : PLRelease(g)
  \/ \E g \in BagToSet(plW) : PLDone(g)
  \/ PLWaitDone

\* ------------------------------------------------------------------ Analyze
\* The targetURL values Analyze is called with.
TargetURLs ==
  {"http://a.test/", "https://a.test/", "ftp://a.test/", "a.test/page", "http://a.test/%zz"}

\* The pages a server answers with, each given by the hrefs of its links
\* that pass the extraction filter, in document order.
Pages == SeqsUpTo(PageHrefs, MaxPageLinks)

\* The pages whose links put processLinks' gate under load: as many relative
\* links as the gate has slots, and more.
GatePages == {[i \in 1..n |-> "/about"] : n \in ProcessLinksSlots..MaxGateLinks}

\* The pages the sequential PageAnalyzer is given: long enough, too, for its
\* estimate of the inaccessible links to leave zero.
SequentialPages == Pages \cup GatePages

\* The collectors before any analysis.
NoMetrics == [requests |-> 0, errors |-> 0, durations |-> 0]

\* metrics.AnalysisRequests.Inc()
RequestCounted(m) == [m EXCEPT !.requests = @ + 1]

\* metrics.AnalysisDuration.Observe(duration)
DurationObserved(m) == [m EXCEPT !.durations = @ + 1]

\* metrics.AnalysisErrors.Inc() and the return, at which the deferred
\* function of PageAnalyzer.Analyze observes the duration.
ErrorReturned(m) == DurationObserved([m EXCEPT !.errors = @ + 1])

\* A nil *AnalysisResult, and a nil error.
NilResult == [isNil |-> TRUE]
NilError == "nil"

\* The phases in which Analyze has returned.
Terminal == {"Assembled", "Failed"}

\* A plausible slip: the error is returned together with a result.
FailWithResult(code) ==
  /\ apc' = "Failed"
  /\ result' = [isNil |-> FALSE, URL |-> targetURL, Links |-> <<>>, AccessibleLinks |-> 0]
  /\ err' = code

\* return nil, <error>
Fail(code) ==
  /\ apc' = "Failed"
  /\ result' = NilResult
  /\ err' = code

\* A plausible slip: the wait is 2*i seconds.
BackoffTwice(i) == 2 * i

\* time.Duration(1<<uint(i)) * time.Second, in seconds
Backoff(i) == 2 ^ i

\* A plausible slip: the page request is built without the caller's context.
FetchOutcomesNoCtx == DoOutcomes(FALSE, targetURL)

\* The page request carries ctx (NewRequestWithContext), so this is what
\* client.Do may return for it.
FetchOutcomes == DoOutcomes(ctxDone, targetURL)

\* What a call DefaultLinkChecker.CheckAccessibility(ctx, urlStr) may return.
CheckAccessibility(cancelled, urlStr) ==
  IF NewRequestFails(urlStr)
    THEN {FALSE}
    ELSE {HeadAccessible(o) : o \in DoOutcomes(cancelled, urlStr)}

\* A plausible slip: the counter starts at one.
CountAccessibleFromOne(m) == 1 + Cardinality({k \in DOMAIN m : m[k]})

\* for _, isAccessible := range linkResults { if isAccessible { accessibleLinks++ } }
CountAccessible(m) == Cardinality({k \in DOMAIN m : m[k]})

\* --- DefaultPageAnalyzer.Analyze
\* Lines 46-53: url.Parse(targetURL); on error return INVALID_URL.
AStart ==
  /\ variant = "default"
  /\ apc = "Created"
  /\ IF UrlParse(targetURL).err
       THEN /\ Fail("INVALID_URL")
            /\ UNCHANGED attempt
       ELSE /\ apc' = "Fetching"
            /\ attempt' = 0
            /\ UNCHANGED <<result, err>>
  /\ UNCHANGED <<variant, targetURL, ctxAtCall, gets, sleeps, fetchStatus,
                 aLinks, aIdx, linkResults, checkLog>>
  /\ UNCHANGED <<envVars, lcVars, fnVars, plVars, metrics>>

\* fetchPage, lines 125-132 and 153: the loop test; build the request and
\* hand it to client.Do, or leave the loop with "max retries exceeded".
\* (NewRequestWithContext cannot fail here: url.String() of a parsed URL
\* parses again.)
AFetchIssue ==
  /\ variant = "default"
  /\ apc = "Fetching"
  /\ IF attempt < config.RetryAttempts
       THEN /\ gets' = gets + 1
            /\ apc' = "FetchWait"
            /\ UNCHANGED <<result, err>>
       ELSE /\ Fail("FETCH_FAILED")
            /\ UNCHANGED gets
  /\ UNCHANGED <<variant, targetURL, ctxAtCall, attempt, sleeps, fetchStatus,
                 aLinks, aIdx, linkResults, checkLog>>
  /\ UNCHANGED <<envVars, lcVars, fnVars, plVars, metrics>>

\* A plausible slip: every status from 400 on is retried.
AFetchReturnRetrying4xx ==
  /\ variant = "default"
  /\ apc = "FetchWait"
  /\ \E o \in FetchOutcomes :
       /\ fetchStatus' = o
       /\ IF o = TransportErr \/ o >= 400
            THEN IF attempt = config.RetryAttempts - 1
                   THEN /\ Fail("FETCH_FAILED")
                        /\ UNCHANGED sleeps
                   ELSE /\ sleeps' = Append(sleeps, Backoff(attempt))
                        /\ apc' = "Backoff"
                        /\ UNCHANGED <<result, err>>
            ELSE /\ apc' = "Parsing"
                 /\ UNCHANGED <<sleeps, result, err>>
  /\ UNCHANGED <<variant, targetURL, ctxAtCall, attempt, gets,
                 aLinks, aIdx, linkResults, checkLog>>
  /\ UNCHANGED <<envVars, lcVars, fnVars, plVars, metrics>>

\* fetchPage, lines 132-150: resp, err = a.client.Do(req) returns and
\* overwrites resp.  A transport error or a status >= 500 fails on the last
\* attempt and otherwise starts time.Sleep; any other response is returned.
AFetchReturn ==
  /\ variant = "default"
  /\ apc = "FetchWait"
  /\ \E o \in FetchOutcomes :
       /\ fetchStatus' = o
       /\ IF o = TransportErr \/ o >= 500
            THEN IF attempt = config.RetryAttempts - 1
                   THEN /\ Fail("FETCH_FAILED")
                        /\ UNCHANGED sleeps
                   ELSE /\ sleeps' = Append(sleeps, Backoff(attempt))
                        /\ apc' = "Backoff"
                        /\ UNCHANGED <<result, err>>
            ELSE /\ apc' = "Parsing"
                 /\ UNCHANGED <<sleeps, result, err>>
  /\ UNCHANGED <<variant, targetURL, ctxAtCall, attempt, gets,
                 aLinks, aIdx, linkResults, checkLog>>
  /\ UNCHANGED <<envVars, lcVars, fnVars, plVars, metrics>>

\* fetchPage, lines 137-138 and 146-147: time.Sleep returns; continue.
ABackoffDone ==
  /\ variant = "default"
  /\ apc = "Backoff"
  /\ attempt' = attempt + 1
  /\ apc' = "Fetching"
  /\ UNCHANGED <<variant, targetURL, ctxAtCall, gets, sleeps, fetchStatus,
                 aLinks, aIdx, linkResults, checkLog, result, err>>
  /\ UNCHANGED <<envVars, lcVars, fnVars, plVars, metrics>>

\* Lines 63-66: a.parser.ParseHTML(resp.Body); html.Parse fails when the
\* body cannot be read.
AParse ==
  /\ variant = "default"
  /\ apc = "Parsing"
  /\ \E ok \in BOOLEAN :
       IF ok THEN apc' = "Extracting" /\ UNCHANGED <<result, err>>
             ELSE Fail("PARSE_FAILED")
  /\ UNCHANGED <<variant, targetURL, ctxAtCall, attempt, gets, sleeps, fetchStatus,
                 aLinks, aIdx, linkResults, checkLog>>
  /\ UNCHANGED <<envVars, lcVars, fnVars, plVars, metrics>>

\* Lines 69-76: the extraction calls; linkResults := make(map[string]bool).
AExtract ==
  /\ variant = "default"
  /\ apc = "Extracting"
  /\ \E hrefs \in Pages : aLinks' = LinkRecords(targetURL, hrefs)
  /\ aIdx' = 1
  /\ linkResults' = <<>>
  /\ checkLog' = <<>>
  /\ apc' = "CheckingLinks"
  /\ UNCHANGED <<variant, targetURL, ctxAtCall, attempt, gets, sleeps, fetchStatus,
                 result, err>>
  /\ UNCHANGED <<envVars, lcVars, fnVars, plVars, metrics>>

\* A plausible slip: a link that is not accessible aborts the analysis.
ACheckLinkAborting ==
  /\ variant = "default"
  /\ apc = "CheckingLinks"
  /\ aIdx <= Len(aLinks)
  /\ \E acc \in CheckAccessibility(ctxDone, aLinks[aIdx].URL) :
       /\ linkResults' = MapPut(linkResults, aLinks[aIdx].URL, acc)
       /\ checkLog' = Append(checkLog, acc)
       /\ IF acc THEN UNCHANGED <<apc, result, err>> ELSE Fail("FETCH_FAILED")
  /\ aIdx' = aIdx + 1
  /\ UNCHANGED <<variant, targetURL, ctxAtCall, attempt, gets, sleeps, fetchStatus, aLinks>>
  /\ UNCHANGED <<envVars, lcVars, fnVars, plVars, metrics>>

\* A plausible slip: a link found inaccessible is removed from the list.
ACheckLinkPruning ==
  /\ variant = "default"
  /\ apc = "CheckingLinks"
  /\ aIdx <= Len(aLinks)
  /\ \E acc \in CheckAccessibility(ctxDone, aLinks[aIdx].URL) :
       /\ linkResults' = MapPut(linkResults, aLinks[aIdx].URL, acc)
       /\ checkLog' = Append(checkLog, acc)
       /\ IF acc
            THEN aLinks' = aLinks /\ aIdx' = aIdx + 1
            ELSE /\ aLinks' = SubSeq(aLinks, 1, aIdx - 1) \o SubSeq(aLinks, aIdx + 1, Len(aLinks))
                 /\ aIdx' = aIdx
  /\ UNCHANGED <<variant, targetURL, ctxAtCall, apc, attempt, gets, sleeps, fetchStatus,
                 result, err>>
  /\ UNCHANGED <<envVars, lcVars, fnVars, plVars, metrics>>

\* Lines 77-81, one iteration: isAccessible := CheckAccessibility(ctx,
\* link.URL); linkResults[link.URL] = isAccessible.
ACheckLink ==
  /\ variant = "default"
  /\ apc = "CheckingLinks"
  /\ aIdx <= Len(aLinks)
  /\ \E acc \in CheckAccessibility(ctxDone, aLinks[aIdx].URL) :
       /\ linkResults' = MapPut(linkResults, aLinks[aIdx].URL, acc)
       /\ checkLog' = Append(checkLog, acc)
  /\ aIdx' = aIdx + 1
  /\ UNCHANGED <<variant, targetURL, ctxAtCall, apc, attempt, gets, sleeps, fetchStatus,
                 aLinks, result, err>>
  /\ UNCHANGED <<envVars, lcVars, fnVars, plVars, metrics>>

\* The loop of lines 77-81 ends.
AChecksDone ==
  /\ variant = "default"
  /\ apc = "CheckingLinks"
  /\ aIdx > Len(aLinks)
  /\ apc' = "ClassifyingForms"
  /\ UNCHANGED <<variant, targetURL, ctxAtCall, attempt, gets, sleeps, fetchStatus,
                 aLinks, aIdx, linkResults, checkLog, result, err>>
  /\ UNCHANGED <<envVars, lcVars, fnVars, plVars, metrics>>

\* Lines 83-117: count the accessible links, classify the forms, build the
\* result and return it with a nil error.
AAssemble ==
  /\ variant = "default"
  /\ apc = "ClassifyingForms"
  /\ result' = [isNil |-> FALSE, URL |-> targetURL, Links |-> aLinks,
                AccessibleLinks |-> CountAccessible(linkResults)]
  /\ err' = NilError
  /\ apc' = "Assembled"
  /\ metrics' = DurationObserved(metrics)
  /\ UNCHANGED <<variant, targetURL, ctxAtCall, attempt, gets, sleeps, fetchStatus,
                 aLinks, aIdx, linkResults, checkLog>>
  /\ UNCHANGED <<envVars, lcVars, fnVars, plVars>>

\* --- PageAnalyzer.Analyze, sequential (interfaces.go) and parallel (analyzer.go)
PageAnalyzers == {"sequential", "parallel"}

\* http.NewRequestWithContext(ctx, GET, urlStr); a.client.Do(req) is called.
PStart ==
  /\ variant \in PageAnalyzers
  /\ apc = "Created"
  /\ IF NewRequestFails(targetURL)
       THEN /\ Fail("error creating request")
            /\ metrics' = IF variant = "parallel"
                             THEN ErrorReturned(RequestCounted(metrics)) ELSE metrics
            /\ UNCHANGED gets
       ELSE /\ gets' = gets + 1
            /\ apc' = "FetchWait"
            /\ metrics' = IF variant = "parallel" THEN RequestCounted(metrics) ELSE metrics
            /\ UNCHANGED <<result, err>>
  /\ UNCHANGED <<variant, targetURL, ctxAtCall, attempt, sleeps, fetchStatus,
                 aLinks, aIdx, linkResults, checkLog>>
  /\ UNCHANGED <<envVars, lcVars, fnVars, plVars>>

\* a.client.Do returns; an error or a status other than 200 is returned as
\* an error.
PFetchReturn ==
  /\ variant \in PageAnalyzers
  /\ apc = "FetchWait"
  /\ \E o \in FetchOutcomes :
       /\ metrics' = IF variant = "parallel" /\ o /= 200
                        THEN ErrorReturned(metrics) ELSE metrics
       /\ IF o = TransportErr
            THEN Fail("error fetching URL") /\ UNCHANGED fetchStatus
            ELSE /\ fetchStatus' = o
                 /\ IF o /= 200
                      THEN Fail("HTTP error")
                      ELSE apc' = "Parsing" /\ UNCHANGED <<result, err>>
  /\ UNCHANGED <<variant, targetURL, ctxAtCall, attempt, gets, sleeps,
                 aLinks, aIdx, linkResults, checkLog>>
  /\ UNCHANGED <<envVars, lcVars, fnVars, plVars>>

\* html.Parse(resp.Body)
PParse ==
  /\ variant \in PageAnalyzers
  /\ apc = "Parsing"
  /\ \E ok \in BOOLEAN :
       IF ok THEN apc' = "Extracting" /\ UNCHANGED <<result, err, metrics>>
             ELSE /\ Fail("error parsing HTML")
                  /\ metrics' = IF variant = "parallel" THEN ErrorReturned(metrics) ELSE metrics
  /\ UNCHANGED <<variant, targetURL, ctxAtCall, attempt, gets, sleeps, fetchStatus,
                 aLinks, aIdx, linkResults, checkLog>>
  /\ UNCHANGED <<envVars, lcVars, fnVars, plVars>>

\* Number of links of the list whose IsInternal is b.
CountInternal(links, b) == Cardinality({i \in 1..Len(links) : links[i].IsInternal = b})

\* Sequential variant, analyzeNode (interfaces.go 150-235): the link
\* counters after the walk.
SAnalyzeNode ==
  /\ variant = "sequential"
  /\ apc = "Extracting"
  /\ \E hrefs \in SequentialPages :
       presult' = [InternalLinks     |-> CountInternal(LinkRecords(targetURL, hrefs), TRUE),
                   ExternalLinks     |-> CountInternal(LinkRecords(targetURL, hrefs), FALSE),
                   InaccessibleLinks |-> 0]
  /\ apc' = "CheckingLinks"
  /\ UNCHANGED <<plLinks, plSent, plRecv, plClosed, plProc, plSem, plWg, plW, plFalse>>
  /\ UNCHANGED <<variant, targetURL, ctxAtCall, attempt, gets, sleeps, fetchStatus,
                 aLinks, aIdx, linkResults, checkLog, result, err>>
  /\ UNCHANGED <<envVars, lcVars, fnVars, metrics>>

\* The *AnalysisResult of a PageAnalyzer with the given link counters.
PageResult(r) ==
  [isNil |-> FALSE, InternalLinks |-> r.InternalLinks, ExternalLinks |-> r.ExternalLinks,
   InaccessibleLinks |-> r.InaccessibleLinks]

\* Sequential variant, checkLinks (interfaces.go 261-266) and the return:
\* result.InaccessibleLinks = totalLinks / 10; return result, nil.
SCheckLinks ==
  /\ variant = "sequential"
  /\ apc = "CheckingLinks"
  /\ presult' = [presult EXCEPT !.InaccessibleLinks =
                    (presult.InternalLinks + presult.ExternalLinks) \div 10]
  /\ result' = PageResult(presult')
  /\ err' = NilError
  /\ apc' = "Assembled"
  /\ UNCHANGED <<plLinks, plSent, plRecv, plClosed, plProc, plSem, plWg, plW, plFalse>>
  /\ UNCHANGED <<variant, targetURL, ctxAtCall, attempt, gets, sleeps, fetchStatus,
                 aLinks, aIdx, linkResults, checkLog>>
  /\ UNCHANGED <<envVars, lcVars, fnVars, metrics>>

\* analyzeNodeParallel(doc, result) has returned to Analyze.
WalkReturned == wPc /= <<>> /\ wPc[1] = "done"

\* Parallel variant, lines 140-157: wg.Wait() returns once the collector
\* and processLinks are done; return result, nil.  The container returned
\* is the one the goroutines wrote: result holds its link counters, wResult
\* the fields the walk has written.
PJoin ==
  /\ ~wFatal
  /\ variant = "parallel"
  /\ apc = "Joining"
  /\ plClosed
  /\ plProc = "done"
  /\ result' = PageResult(presult)
  /\ err' = NilError
  /\ apc' = "Assembled"
  /\ metrics' = DurationObserved(metrics)
  /\ UNCHANGED <<variant, targetURL, ctxAtCall, attempt, gets, sleeps, fetchStatus,
                 aLinks, aIdx, linkResults, checkLog>>
  /\ UNCHANGED <<envVars, lcVars, fnVars, plVars>>

\* The caller's context is cancelled while Analyze runs.
ACancel ==
  /\ variant /= "none"
  /\ apc \notin Terminal
  /\ ~ctxDone
  /\ ctxDone' = TRUE
  /\ UNCHANGED <<config, lcVars, fnVars, plVars, anVars>>

\* No call of Analyze is under way.
AnalyzeIdle ==
  /\ variant = "none"
  /\ targetURL = ""
  /\ ctxAtCall = FALSE
  /\ apc = "Idle"
  /\ attempt = 0
  /\ gets = 0
  /\ sleeps = <<>>
  /\ fetchStatus = 0
  /\ aLinks = <<>>
  /\ aIdx = 1
  /\ linkResults = <<>>
  /\ checkLog = <<>>
  /\ result = NilResult
  /\ err = NilError
  /\ metrics = NoMetrics

\* Analyze has just been called.
AnalyzeInit ==
  /\ variant \in {"default"} \cup PageAnalyzers
  /\ targetURL \in TargetURLs
  /\ ctxAtCall = ctxDone
  /\ apc = "Created"
  /\ attempt = 0
  /\ gets = 0
  /\ sleeps = <<>>
  /\ fetchStatus = 0
  /\ aLinks = <<>>
  /\ aIdx = 1
  /\ linkResults = <<>>
  /\ checkLog = <<>>
  /\ result = NilResult
  /\ err = NilError
  /\ metrics = NoMetrics

\* ------------------------------------------------------- specifications
\* The configuration of NewRouter (router.go 46-50).
RouterRetryAttempts == 3
RouterMaxConcurrentLinks == 10

\* CheckLinksConcurrently alone, for every MaxConcurrentLinks >= 1.
LCConfigInit ==
  /\ config \in [MaxConcurrentLinks : 1..MaxSlots, RetryAttempts : {RouterRetryAttempts}]
  /\ ctxDone = FALSE

SpecLCInit == LCConfigInit /\ LCInit /\ PLIdle /\ AnalyzeIdle /\ FnIdle

SpecLC == SpecLCInit /\ [][LCNext]_vars

\* A step of the call itself: the spawning loop, a goroutine, the return.
LCStep ==
  \/ LCSpawn
  \/ \E w \in Workers : LCWorker(w)
  \/ LCReturn

\* The Go scheduler does not leave every runnable goroutine waiting for
\* ever, and every probe returns (the client has a timeout).
LCFairness == WF_vars(LCStep)

SpecLCFair == SpecLC /\ LCFairness

\* CheckLinksConcurrently under every MaxConcurrentLinks >= 0 that
\* make(chan struct{}, n) accepts: neither DefaultConfig nor LoadConfig
\* rejects a configuration whose MaxConcurrentLinks is 0.
SpecLCAnyConfigInit ==
  /\ config \in [MaxConcurrentLinks : 0..MaxSlots, RetryAttempts : {RouterRetryAttempts}]
  /\ ctxDone = FALSE
  /\ LCInit
  /\ PLIdle
  /\ AnalyzeIdle
  /\ FnIdle

SpecLCAnyConfig == SpecLCAnyConfigInit /\ [][LCNext]_vars /\ LCFairness

\* ------------------------------ PrometheusMetricsCollector (metrics.go)
\* The methods of the MetricsCollector interface that change the collectors
\* the model follows, called by whoever holds the collector.  Nothing in
\* the repository calls RecordRequest or RecordError; DefaultPageAnalyzer
\* calls RecordDuration on its success path only (AAssemble).
\* How many times each collector is incremented.
MaxRecorded == 4

\* The variables of an Analyze call except the collectors.
CollectorUnchanged ==
  /\ UNCHANGED <<variant, targetURL, ctxAtCall, apc, attempt, gets, sleeps, fetchStatus,
                 aLinks, aIdx, linkResults, checkLog, result, err>>
  /\ UNCHANGED <<envVars, lcVars, fnVars, plVars>>

\* func (m *PrometheusMetricsCollector) RecordRequest()
RecordRequest ==
  /\ metrics.requests < MaxRecorded
  /\ metrics' = RequestCounted(metrics)
  /\ CollectorUnchanged

\* func (m *PrometheusMetricsCollector) RecordError(err error)
RecordError ==
  /\ metrics.errors < MaxRecorded
  /\ metrics' = [metrics EXCEPT !.errors = @ + 1]
  /\ CollectorUnchanged

\* func (m *PrometheusMetricsCollector) RecordDuration(duration float64)
RecordDuration ==
  /\ metrics.durations < MaxRecorded
  /\ metrics' = DurationObserved(metrics)
  /\ CollectorUnchanged

\* A fresh collector and no analysis under way.
SpecCollectorInit ==
  /\ config = [MaxConcurrentLinks |-> RouterMaxConcurrentLinks,
               RetryAttempts |-> RouterRetryAttempts]
  /\ ctxDone = FALSE
  /\ LCIdle
  /\ PLIdle
  /\ AnalyzeIdle
  /\ FnIdle

CollectorNext ==
  \/ RecordRequest
  \/ RecordError
  \/ RecordDuration

SpecCollector == SpecCollectorInit /\ [][CollectorNext]_vars

\* ------------------- DefaultLinkChecker.CheckWithRetry, RetryWithBackoff
\* What fn() may return: nil, or one of two errors.
FnOutcomes == {"nil", "E1", "E2"}

\* ctx.Err() of a cancelled context.
CtxErr == "context canceled"

RetryUnchanged == UNCHANGED <<lcVars, plVars, anVars, prVars, doc, exVars, wkVars, hdVars>>

\* CheckWithRetry, lines 48-52: the loop test holds; CheckAccessibility is
\* called and a true result is returned at once.
CWCheck ==
  /\ rFn = "CheckWithRetry"
  /\ rPc = "loop"
  /\ rI < config.RetryAttempts
  /\ \E isAccessible \in CheckAccessibility(ctxDone, rURL) :
       /\ rLast' = isAccessible
       /\ rCalls' = Append(rCalls, isAccessible)
       /\ IF isAccessible
            THEN rPc' = "returned" /\ rRet' = TRUE
            ELSE rPc' = "wait" /\ UNCHANGED rRet
  /\ UNCHANGED <<envVars, rFn, rURL, rI, rWaits>>
  /\ RetryUnchanged

\* A plausible slip: the wait does not listen to the context.
CWCancelledIgnoringCtx ==
  /\ rFn = "CheckWithRetry"
  /\ rPc = "wait"
  /\ ctxDone
  /\ rWaits' = Append(rWaits, Backoff(rI))
  /\ rI' = rI + 1
  /\ rPc' = "loop"
  /\ UNCHANGED <<envVars, rFn, rURL, rLast, rCalls, rRet>>
  /\ RetryUnchanged

\* CheckWithRetry, lines 53-55: case <-ctx.Done(): return false
CWCancelled ==
  /\ rFn = "CheckWithRetry"
  /\ rPc = "wait"
  /\ ctxDone
  /\ rPc' = "returned"
  /\ rRet' = FALSE
  /\ UNCHANGED <<envVars, rFn, rURL, rI, rLast, rCalls, rWaits>>
  /\ RetryUnchanged

\* CheckWithRetry, lines 56-57: the timer of 2^i seconds fires before the
\* context is done; continue, i++.
CWTimer ==
  /\ rFn = "CheckWithRetry"
  /\ rPc = "wait"
  /\ ~ctxDone
  /\ rWaits' = Append(rWaits, Backoff(rI))
  /\ rI' = rI + 1
  /\ rPc' = "loop"
  /\ UNCHANGED <<envVars, rFn, rURL, rLast, rCalls, rRet>>
  /\ RetryUnchanged

\* CheckWithRetry, lines 48 and 60: the loop test fails; return isAccessible
CWReturn ==
  /\ rFn = "CheckWithRetry"
  /\ rPc = "loop"
  /\ rI >= config.RetryAttempts
  /\ rPc' = "returned"
  /\ rRet' = rLast
  /\ UNCHANGED <<envVars, rFn, rURL, rI, rLast, rCalls, rWaits>>
  /\ RetryUnchanged

\* RetryWithBackoff, lines 92-94 and 103: the loop test holds; fn is called,
\* and nil is returned when fn returns nil.
RBCall ==
  /\ rFn = "RetryWithBackoff"
  /\ rPc = "loop"
  /\ rI < config.RetryAttempts
  /\ \E e \in FnOutcomes :
       /\ rCalls' = Append(rCalls, e)
       /\ IF e = "nil"
            THEN rPc' = "returned" /\ rRet' = "nil" /\ UNCHANGED rLast
            ELSE rPc' = "wait" /\ rLast' = e /\ UNCHANGED rRet
  /\ UNCHANGED <<envVars, rFn, rURL, rI, rWaits>>
  /\ RetryUnchanged

\* RetryWithBackoff, lines 96-98: case <-ctx.Done(): return ctx.Err()
RBCancelled ==
  /\ rFn = "RetryWithBackoff"
  /\ rPc = "wait"
  /\ ctxDone
  /\ rPc' = "returned"
  /\ rRet' = CtxErr
  /\ UNCHANGED <<envVars, rFn, rURL, rI, rLast, rCalls, rWaits>>
  /\ RetryUnchanged

\* RetryWithBackoff, lines 99-100: the timer fires first; continue, i++.
RBTimer ==
  /\ rFn = "RetryWithBackoff"
  /\ rPc = "wait"
  /\ ~ctxDone
  /\ rWaits' = Append(rWaits, Backoff(rI))
  /\ rI' = rI + 1
  /\ rPc' = "loop"
  /\ UNCHANGED <<envVars, rFn, rURL, rLast, rCalls, rRet>>
  /\ RetryUnchanged

\* RetryWithBackoff, lines 92 and 105: the loop test fails; return lastErr
RBReturn ==
  /\ rFn = "RetryWithBackoff"
  /\ rPc = "loop"
  /\ rI >= config.RetryAttempts
  /\ rPc' = "returned"
  /\ rRet' = rLast
  /\ UNCHANGED <<envVars, rFn, rURL, rI, rLast, rCalls, rWaits>>
  /\ RetryUnchanged

\* The caller's context is cancelled while a retry loop runs.
RCancel ==
  /\ rFn /= "none"
  /\ rPc \in {"loop", "wait"}
  /\ ~ctxDone
  /\ ctxDone' = TRUE
  /\ UNCHANGED <<config, rtVars>>
  /\ RetryUnchanged

\* CheckWithRetry(ctx, urlStr) or RetryWithBackoff(ctx, fn) has just been
\* called: var isAccessible bool, var lastErr error.
SpecRetryInit ==
  /\ config \in [MaxConcurrentLinks : {RouterMaxConcurrentLinks}, RetryAttempts : 0..MaxRetry]
  /\ ctxDone \in BOOLEAN
  /\ LCIdle /\ PLIdle /\ AnalyzeIdle
  /\ ProbeIdle /\ doc = <<>> /\ ExtractIdle /\ WalkIdle /\ HandlerIdle
  /\ rFn \in {"CheckWithRetry", "RetryWithBackoff"}
  /\ rURL \in (IF rFn = "CheckWithRetry" THEN LCUrls ELSE {""})
  /\ rPc = "loop"
  /\ rI = 0
  /\ rLast = (IF rFn = "CheckWithRetry" THEN FALSE ELSE "nil")
  /\ rCalls = <<>>
  /\ rWaits = <<>>
  /\ rRet = (IF rFn = "CheckWithRetry" THEN FALSE ELSE "")

RetryNext ==
  \/ CWCheck
  \/ CWCancelled
  \/ CWTimer
  \/ CWReturn
  \/ RBCall
  \/ RBCancelled
  \/ RBTimer
  \/ RBReturn
  \/ RCancel

SpecRetry == SpecRetryInit /\ [][RetryNext]_vars

\* ------------------------------------------------- Router.analyzeHandler
\* r.tmpl.ExecuteTemplate(w, page, templateData) and, when it fails,
\* http.Error(w, "Internal Server Error", 500).
Rendered(ok, page, message) ==
  IF ok THEN Response(200, page, message) ELSE Response(500, "", "Internal Server Error")

\* A plausible slip: the scheme of the URL is not examined.
InvalidURLParseOnly(urlString) == UrlParse(urlString).err

\* err != nil || (parsedURL.Scheme != "http" && parsedURL.Scheme != "https")
InvalidURL(urlString) ==
  UrlParse(urlString).err \/ UrlParse(urlString).Scheme \notin {"http", "https"}

\* analyzeHandler up to its call of r.analyzer.Analyze: a request that is
\* not a POST is redirected, one whose form does not parse is a bad request,
\* one with an empty or an invalid url gets the index page with an error;
\* any other starts the analysis of its url with the request's context.
HValidate ==
  /\ hPc = "received"
  /\ IF hReq.method /= "POST" \/ ~hReq.formOk \/ hReq.url = "" \/ InvalidURL(hReq.url)
       THEN /\ hPc' = "responded"
            /\ \E ok \in BOOLEAN :
                 hResp' = IF hReq.method /= "POST" THEN Response(303, "/", "")
                          ELSE IF ~hReq.formOk THEN Response(400, "", "Bad Request")
                          ELSE IF hReq.url = ""
                            THEN Rendered(ok, "index.html", "URL cannot be empty")
                          ELSE Rendered(ok, "index.html", "Invalid URL")
            /\ UNCHANGED anVars
       ELSE /\ hPc' = "analyzing"
            /\ variant' = "default"
            /\ targetURL' = hReq.url
            /\ ctxAtCall' = ctxDone
            /\ apc' = "Created"
            /\ UNCHANGED <<hResp, attempt, gets, sleeps, fetchStatus, aLinks, aIdx,
                           linkResults, checkLog, result, err, metrics>>
  /\ UNCHANGED <<envVars, lcVars, plVars, prVars, doc, exVars, wkVars, rtVars, hReq>>

\* analyzeHandler after Analyze returned: the index page with the error, or
\* the result page.
HRespond ==
  /\ hPc = "analyzing"
  /\ apc \in Terminal
  /\ \E ok \in BOOLEAN :
       hResp' = IF err /= NilError THEN Rendered(ok, "index.html", err)
                ELSE Rendered(ok, "result.html", "")
  /\ hPc' = "responded"
  /\ UNCHANGED <<envVars, lcVars, plVars, anVars, prVars, doc, exVars, wkVars, rtVars, hReq>>

\* The requests the handler is given.
HandlerRequests == [method : {"GET", "POST"}, formOk : BOOLEAN, url : {""} \cup TargetURLs]

\* The router (router.go 44-58) has built its DefaultPageAnalyzer and the
\* handler has received a request, whose client may already be gone.
SpecHandlerInit ==
  /\ config = [RetryAttempts |-> RouterRetryAttempts,
               MaxConcurrentLinks |-> RouterMaxConcurrentLinks]
  /\ ctxDone \in BOOLEAN
  /\ LCIdle /\ PLIdle /\ AnalyzeIdle
  /\ ProbeIdle /\ doc = <<>> /\ ExtractIdle /\ WalkIdle /\ RetryIdle
  /\ hPc = "received"
  /\ hReq \in HandlerRequests
  /\ hResp = NoResponse

HandlerNext ==
  \/ HValidate
  \/ HRespond
  \/ AStart
  \/ AFetchIssue
  \/ AFetchReturn
  \/ ABackoffDone
  \/ AParse
  \/ AExtract
  \/ ACheckLink
  \/ AChecksDone
  \/ AAssemble
  \/ ACancel

SpecHandler == SpecHandlerInit /\ [][HandlerNext]_vars


\* ------------------------------------------------------------ properties
\* C1: in CheckLinksConcurrently with MaxConcurrentLinks = N >= 1 at most N
\* calls of CheckAccessibility are in progress at any moment, and in
\* processLinks at most ten calls of checkLinkAccessibility are, however
\* many links there are.
BoundedChecksInFlight ==
  /\ lcMain /= "idle" => Cardinality(InCheck) <= config.MaxConcurrentLinks
  /\ plProc /= "idle" => PLInCheck <= ProcessLinksSlots

\* processLinks has all ten slots taken by running checks while the range
\* loop holds an eleventh link and waits for a slot.
GateFullWithLinkWaiting ==
  /\ PLInCheck = ProcessLinksSlots
  /\ plProc = "acquire"
  /\ plRecv = ProcessLinksSlots + 1

\* C2: once the context is cancelled while CheckLinksConcurrently runs,
\* every check that completes afterwards, whether it held a slot or was
\* still waiting for one at the cancellation, gets false from
\* CheckAccessibility and writes that value for its URL, and the call
\* eventually returns with every goroutine finished.
CancelledChecksRecordFalseAndReturn ==
  /\ [][\A w \in Workers :
          /\ (ctxDone /\ lcPc[w] \in {"sem", "head"} /\ lcPc'[w] = "lock") => ~lcAcc'[w]
          /\ (lcPc[w] = "lock" /\ lcPc'[w] = "cs") => results'[lcLinks[w].URL] = lcAcc[w]]_vars
  /\ ctxDone ~> (lcMain = "returned" /\ \A w \in Workers : lcPc[w] = "done")

\* The call has returned after a cancellation that caught one check inside
\* its probe and another still waiting for a slot, and the map holds false.
ReturnedAfterCancelMidFlight ==
  /\ lcMain = "returned"
  /\ ctxDone
  /\ lcAtCancel.inFlight
  /\ lcAtCancel.queued
  /\ Len(lcLinks) > config.MaxConcurrentLinks
  /\ \A k \in DOMAIN results : ~results[k]


\* The phases of DefaultPageAnalyzer.Analyze after the page has been fetched
\* and parsed.
AfterParse == {"Extracting", "CheckingLinks", "ClassifyingForms", "Assembled"}

\* C3 (as the code has it): in DefaultPageAnalyzer.Analyze the Failed
\* outcome is entered only from URL validation, the fetch and the parse;
\* once the page is fetched and parsed every step stays on the way to
\* Assembled and a step is always possible until it is reached, whatever the
\* link checks return; Assembled carries a result and a nil error.
FailedOnlyBeforeExtraction ==
  /\ [][variant = "default" =>
          /\ (apc' = "Failed" /\ apc /= "Failed") =>
                apc \in {"Created", "Fetching", "FetchWait", "Parsing"}
          /\ apc \in AfterParse => apc' \in AfterParse]_vars
  /\ [](variant = "default" =>
          /\ apc \in AfterParse \ {"Assembled"} =>
                ENABLED (AExtract \/ ACheckLink \/ AChecksDone \/ AAssemble)
          /\ apc = "Assembled" => ~result.isNil /\ err = NilError)

\* Analyze has returned a result although the context was cancelled after
\* the fetch and both link checks returned false.
AssembledDespiteFailingLinks ==
  /\ variant = "default"
  /\ apc = "Assembled"
  /\ ctxDone /\ ~ctxAtCall
  /\ Len(checkLog) = 2
  /\ \A i \in 1..Len(checkLog) : ~checkLog[i]
  /\ ~result.isNil /\ err = NilError
  /\ result.AccessibleLinks = 0

\* C3 (as stated): Failed is entered only from the fetch and parse phases.
FailedOnlyFromFetchOrParse ==
  [][(variant = "default" /\ apc' = "Failed" /\ apc /= "Failed") =>
        apc \in {"Fetching", "FetchWait", "Backoff", "Parsing"}]_vars

\* C4: whenever the response the page fetch returns has a status outside
\* [200,300), DefaultPageAnalyzer.Analyze does not go on to extraction and
\* returns FETCH_FAILED with no result.
NonSuccessResponseFailsAnalysis ==
  (variant = "default" /\ fetchStatus /= 0 /\ (fetchStatus < 200 \/ fetchStatus >= 300)) =>
     /\ apc \notin AfterParse
     /\ apc \in Terminal => (err = "FETCH_FAILED" /\ result = NilResult)

\* C5: DefaultPageAnalyzer.Analyze with a targetURL that is not a valid
\* absolute http or https URL issues no request and starts no backoff wait,
\* and returns INVALID_URL.
InvalidTargetRejectedBeforeNetwork ==
  (variant = "default" /\
     (UrlParse(targetURL).err \/ UrlParse(targetURL).Scheme \notin {"http", "https"})) =>
     /\ gets = 0
     /\ sleeps = <<>>
     /\ apc \in Terminal => (apc = "Failed" /\ err = "INVALID_URL")

\* C6: Analyze of DefaultPageAnalyzer and of the parallel PageAnalyzer,
\* called with an already cancelled context, never reaches the parse,
\* extract or link-check phases, and returns an error and no result.
CancelledAtCallFails ==
  (ctxAtCall /\ variant \in {"default", "parallel"}) =>
     /\ apc \in {"Created", "Fetching", "FetchWait", "Backoff", "Failed"}
     /\ apc \in Terminal => (err /= NilError /\ result = NilResult)

\* DefaultPageAnalyzer.Analyze, called with a cancelled context and three
\* attempts configured, has failed after its last attempt.
CancelledCallHasFailed ==
  /\ ctxAtCall
  /\ variant = "default"
  /\ config.RetryAttempts = RouterRetryAttempts
  /\ gets = config.RetryAttempts
  /\ apc = "Failed"
  /\ err = "FETCH_FAILED"

\* C7: once the caller's context is cancelled, fetchPage starts no further
\* backoff wait, completes none and makes no further fetch attempt.
NoFetchActivityAfterCancel ==
  [][(variant = "default" /\ ctxDone) =>
        /\ gets' = gets
        /\ sleeps' = sleeps
        /\ ~(apc = "Backoff" /\ apc' = "Fetching")]_vars

\* C8: every call of Analyze, of any of the three analyzers, returns either
\* a result with a nil error or no result with an error.
ResultXorError ==
  apc \in Terminal => ((result = NilResult) /= (err = NilError))

\* The parallel PageAnalyzer has returned a result and a nil error for a
\* page with links.
ParallelAnalyzeReturnedResult ==
  /\ variant = "parallel"
  /\ apc = "Assembled"
  /\ Len(plLinks) = MaxPageLinks
  /\ ~result.isNil
  /\ err = NilError

\* C9: in every result of DefaultPageAnalyzer.Analyze, AccessibleLinks is the
\* number of entries of Links whose check returned true and len(Links) -
\* AccessibleLinks the number whose check returned false, also when an href
\* occurs more than once.
AccessibleCountsMatchChecks ==
  (variant = "default" /\ apc = "Assembled") =>
     /\ result.AccessibleLinks = Cardinality({i \in 1..Len(checkLog) : checkLog[i]})
     /\ Len(result.Links) - result.AccessibleLinks =
          Cardinality({i \in 1..Len(checkLog) : ~checkLog[i]})

\* C10: every result of DefaultPageAnalyzer.Analyze has
\* 0 <= AccessibleLinks <= len(Links).
AccessibleLinksWithinBounds ==
  (variant = "default" /\ apc = "Assembled") =>
     (0 <= result.AccessibleLinks /\ result.AccessibleLinks <= Len(result.Links))

\* A result whose links are all distinct and all accessible: the count has
\* reached len(Links).
EveryLinkAccessible ==
  /\ variant = "default"
  /\ apc = "Assembled"
  /\ Len(result.Links) = MaxPageLinks
  /\ result.AccessibleLinks = Len(result.Links)


\* ------------------------------------------------- one accessibility probe
\* The final status codes a server may answer a link probe with.
ProbeStatuses == {200, 204, 304, 404, 503}

\* What client.Do may return for a probe request.
ProbeOutcomes == {TransportErr} \cup ProbeStatuses

\* The two link checkers.
Checkers == {"DefaultLinkChecker", "PageAnalyzer"}

\* A call of CheckAccessibility(ctx, urlStr) or checkLinkAccessibility(ctx,
\* urlStr) under a live context, against a server whose answers to a HEAD
\* and to a GET request for the URL are prHead and prGet.
ProbeInit ==
  /\ prChecker \in Checkers
  /\ prURL \in LCUrls
  /\ prHead \in ProbeOutcomes
  /\ prGet \in ProbeOutcomes
  /\ prPc = "called"
  /\ prRequests = <<>>
  /\ prResult = FALSE

\* http.NewRequestWithContext(ctx, "HEAD", urlStr, nil): on error return
\* false; otherwise client.Do(req) is called (link_checker.go 28-35,
\* analyzer.go 238-247).
ProbeHead ==
  /\ prPc = "called"
  /\ IF NewRequestFails(prURL)
       THEN /\ prResult' = FALSE
            /\ prPc' = "returned"
            /\ UNCHANGED prRequests
       ELSE /\ prRequests' = Append(prRequests, "HEAD")
            /\ prPc' = "head"
            /\ UNCHANGED prResult
  /\ UNCHANGED <<prChecker, prURL, prHead, prGet>>
  /\ UNCHANGED <<envVars, lcVars, plVars, anVars, hdVars, rtVars, doc, exVars, wkVars>>

\* client.Do returns for the HEAD request.  DefaultLinkChecker returns the
\* status test (link_checker.go 36-42).  PageAnalyzer returns false on an
\* error and true on 200, and otherwise builds a GET request for the same
\* URL and calls client.Do (analyzer.go 248-271).
ProbeHeadReturn ==
  /\ prPc = "head"
  /\ IF prChecker = "DefaultLinkChecker"
       THEN /\ prResult' = HeadAccessible(prHead)
            /\ prPc' = "returned"
            /\ UNCHANGED prRequests
       ELSE IF prHead = TransportErr \/ prHead = 200
         THEN /\ prResult' = checkLinkAccessibility(prHead, prGet)
              /\ prPc' = "returned"
              /\ UNCHANGED prRequests
         ELSE /\ prRequests' = Append(prRequests, "GET")
              /\ prPc' = "get"
              /\ UNCHANGED prResult
  /\ UNCHANGED <<prChecker, prURL, prHead, prGet>>
  /\ UNCHANGED <<envVars, lcVars, plVars, anVars, hdVars, rtVars, doc, exVars, wkVars>>

\* client.Do returns for PageAnalyzer's GET request (analyzer.go 272-281).
ProbeGetReturn ==
  /\ prPc = "get"
  /\ prResult' = checkLinkAccessibility(prHead, prGet)
  /\ prPc' = "returned"
  /\ UNCHANGED <<prChecker, prURL, prHead, prGet, prRequests>>
  /\ UNCHANGED <<envVars, lcVars, plVars, anVars, hdVars, rtVars, doc, exVars, wkVars>>

ProbeNext ==
  \/ ProbeHead
  \/ ProbeHeadReturn
  \/ ProbeGetReturn

\* One probe by either checker, for every pair of server answers.
SpecProbeInit ==
  /\ config = [MaxConcurrentLinks |-> RouterMaxConcurrentLinks,
               RetryAttempts |-> RouterRetryAttempts]
  /\ ctxDone = FALSE
  /\ LCIdle
  /\ PLIdle
  /\ AnalyzeIdle
  /\ ProbeInit
  /\ doc = <<>>
  /\ ExtractIdle
  /\ WalkIdle
  /\ HandlerIdle
  /\ RetryIdle

SpecProbe == SpecProbeInit /\ [][ProbeNext]_vars

\* C11: DefaultLinkChecker.CheckAccessibility sends a GET for the same URL
\* whenever the HEAD probe fails at transport level or answers a status
\* outside [200,400), and then reports accessible iff the GET status is in
\* [200,300).
DefaultCheckerFallsBackToGet ==
  (prChecker = "DefaultLinkChecker" /\ prPc = "returned" /\ ~NewRequestFails(prURL)
     /\ (prHead = TransportErr \/ prHead < 200 \/ prHead >= 400)) =>
     /\ prRequests = <<"HEAD", "GET">>
     /\ prResult = (prGet /= TransportErr /\ prGet >= 200 /\ prGet < 300)

\* C12: PageAnalyzer.checkLinkAccessibility reports a link accessible
\* whenever the HEAD probe answers a status in [200,400), whatever a GET
\* would answer.
HeadSuccessIsAccessible ==
  (prChecker = "PageAnalyzer" /\ prPc = "returned" /\ ~NewRequestFails(prURL)
     /\ prHead /= TransportErr /\ prHead >= 200 /\ prHead < 400) =>
     prResult

\* C13: in PageAnalyzer.checkLinkAccessibility a transport failure of the
\* HEAD probe is followed by a GET for the same URL whose status decides the
\* result, and a link is reported inaccessible without a GET only when the
\* request cannot be created.
HeadFailureFallsBackToGet ==
  (prChecker = "PageAnalyzer" /\ prPc = "returned") =>
     /\ (prHead = TransportErr /\ ~NewRequestFails(prURL)) =>
          /\ prRequests = <<"HEAD", "GET">>
          /\ prResult = (prGet /= TransportErr /\ prGet >= 200 /\ prGet < 300)
     /\ (~prResult /\ prRequests /= <<"HEAD", "GET">>) => NewRequestFails(prURL)


\* ------------------------------------------------------ strings and nodes
\* A Go string the code inspects is a sequence of one-character strings.
\* strings.HasPrefix(s, p)
HasPrefix(s, p) == Len(s) >= Len(p) /\ SubSeq(s, 1, Len(p)) = p

\* strings.Contains(s, sub)
Contains(s, sub) ==
  \E i \in 1..(Len(s) - Len(sub) + 1) : SubSeq(s, i, i + Len(sub) - 1) = sub

\* unicode.ToLower on the characters the model's strings are written with:
\* an upper-case letter A..Z gives its lower-case letter, every other
\* character of these strings gives itself.
LowerChar(c) ==
  LET upper == <<"A", "B", "C", "D", "E", "F", "G", "H", "I", "J", "K", "L", "M",
                 "N", "O", "P", "Q", "R", "S", "T", "U", "V", "W", "X", "Y", "Z">>
      lower == <<"a", "b", "c", "d", "e", "f", "g", "h", "i", "j", "k", "l", "m",
                 "n", "o", "p", "q", "r", "s", "t", "u", "v", "w", "x", "y", "z">>
  IN IF \E i \in 1..Len(upper) : upper[i] = c
       THEN lower[CHOOSE i \in 1..Len(upper) : upper[i] = c]
       ELSE c

\* strings.ToLower(s)
ToLower(s) == [i \in 1..Len(s) |-> LowerChar(s[i])]

\* An html.Attribute.
Attribute(key, val) == [Key |-> key, Val |-> val]

\* An html.Node without its place in the tree: Type, Data, Attr.
NodeOf(type, data, attr) == [Type |-> type, Data |-> data, Attr |-> attr]

\* A node of a tree: the node and the index of its parent (0: none).  A
\* tree is a sequence of such nodes, parents before children, siblings in
\* index order.
Placed(node, parent) ==
  [Type |-> node.Type, Data |-> node.Data, Attr |-> node.Attr, parent |-> parent]

\* The children of node n of tree d, FirstChild first, following NextSibling.
Children(d, n) ==
  LET RECURSIVE From(_)
      From(i) == IF i > Len(d) THEN <<>>
                 ELSE IF d[i].parent = n THEN <<i>> \o From(i + 1)
                 ELSE From(i + 1)
  IN From(1)

\* The string literals of the parser and of the analyzers (tags, attribute
\* keys and values, doctype names), and the attribute values, doctype names
\* and texts the model's documents are written with.
Lit ==
  [h1 |-> <<"h", "1">>,
   h2 |-> <<"h", "2">>,
   hr |-> <<"h", "r">>,
   title |-> <<"t", "i", "t", "l", "e">>,
   form |-> <<"f", "o", "r", "m">>,
   input |-> <<"i", "n", "p", "u", "t">>,
   button |-> <<"b", "u", "t", "t", "o", "n">>,
   action |-> <<"a", "c", "t", "i", "o", "n">>,
   type |-> <<"t", "y", "p", "e">>,
   login |-> <<"l", "o", "g", "i", "n">>,
   signin |-> <<"s", "i", "g", "n", "i", "n">>,
   password |-> <<"p", "a", "s", "s", "w", "o", "r", "d">>,
   text |-> <<"t", "e", "x", "t">>,
   email |-> <<"e", "m", "a", "i", "l">>,
   submit |-> <<"s", "u", "b", "m", "i", "t">>,
   html |-> <<"h", "t", "m", "l">>,
   html5 |-> <<"h", "t", "m", "l", " ", "5">>,
   html401 |-> <<"h", "t", "m", "l", " ", "4", ".", "0", "1">>,
   xhtml10 |-> <<"x", "h", "t", "m", "l", " ", "1", ".", "0">>,
   xhtml11 |-> <<"x", "h", "t", "m", "l", " ", "1", ".", "1">>,
   loginAction |-> <<"/", "l", "o", "g", "i", "n">>,
   searchAction |-> <<"/", "s", "e", "a", "r", "c", "h">>,
   upperHtml401 |-> <<"H", "T", "M", "L", " ", "4", ".", "0", "1">>,
   svg |-> <<"s", "v", "g">>,
   anchor |-> <<"a">>,
   href |-> <<"h", "r", "e", "f">>,
   javascript |-> <<"j", "a", "v", "a", "s", "c", "r", "i", "p", "t", ":">>,
   hash |-> <<"#">>,
   hrefTop |-> <<"#", "t", "o", "p">>,
   hrefScript |-> <<"j", "a", "v", "a", "s", "c", "r", "i", "p", "t", ":", "v", "o", "i", "d", "(", "0", ")">>,
   hrefAbout |-> <<"/", "a", "b", "o", "u", "t">>,
   hrefOk |-> <<"h", "t", "t", "p", ":", "/", "/", "a", ".", "t", "e", "s", "t", "/", "o", "k">>,
   hrefOther |-> <<"h", "t", "t", "p", ":", "/", "/", "b", ".", "t", "e", "s", "t", "/", "x">>,
   hrefUpper |-> <<"h", "t", "t", "p", ":", "/", "/", "A", ".", "t", "e", "s", "t", "/", "o", "k">>,
   hrefBad |-> <<"%", "z", "z">>,
   hrefMail |-> <<"m", "a", "i", "l", "t", "o", ":", "x", "@", "b", ".", "t", "e", "s", "t">>,
   div |-> <<"d", "i", "v">>,
   a |-> <<"A">>,
   b |-> <<"B">>]

\* The heading-level tags h1..h6.
HeadingTags == {<<"h", l>> : l \in {"1", "2", "3", "4", "5", "6"}}

\* A subtree of depth at most two: a node and its children.
Item(node, kids) == [node |-> node, kids |-> kids]

Element(tag, attr) == NodeOf("Element", tag, attr)
TextNode(data) == NodeOf("Text", data, <<>>)
Doctype(data) == NodeOf("Doctype", data, <<>>)
InputOfType(t) == Element(Lit.input, <<Attribute(Lit.type, t)>>)

\* The tree of a document whose root has the given subtrees, in order.
DocOf(items) ==
  LET RECURSIVE Build(_, _)
      Build(rest, d) ==
        IF rest = <<>> THEN d
        ELSE LET it == Head(rest)
                 me == Len(d) + 1
             IN Build(Tail(rest),
                      Append(d, Placed(it.node, 1)) \o
                        [k \in 1..Len(it.kids) |-> Placed(it.kids[k], me)])
  IN Build(items, <<Placed(NodeOf("Document", <<>>, <<>>), 0)>>)


\* ------------------------------------- DefaultHTMLParser on a parsed tree
\* findTitle of ExtractTitle: the title variable after the walk of the
\* subtree of n, given its value before.
RECURSIVE findTitle(_, _, _)
findTitle(d, n, title) ==
  LET kids == Children(d, n)
      here == IF d[n].Type = "Element" /\ d[n].Data = Lit.title /\ kids /= <<>>
                THEN d[kids[1]].Data
                ELSE title
      RECURSIVE Loop(_, _)
      Loop(cs, t) == IF cs = <<>> THEN t ELSE Loop(Tail(cs), findTitle(d, Head(cs), t))
  IN Loop(kids, here)

\* DefaultHTMLParser.ExtractTitle
ExtractTitle(d) == findTitle(d, 1, <<>>)

\* The map after m[key]++.
MapIncrement(m, key) == MapPut(m, key, (IF key \in DOMAIN m THEN m[key] ELSE 0) + 1)

\* findHeadings of ExtractHeadings: headingCount after the walk of the
\* subtree of n.
RECURSIVE findHeadings(_, _, _)
findHeadings(d, n, headingCount) ==
  LET here == IF d[n].Type = "Element" /\ HasPrefix(d[n].Data, <<"h">>) /\ Len(d[n].Data) = 2
                THEN MapIncrement(headingCount, d[n].Data)
                ELSE headingCount
      RECURSIVE Loop(_, _)
      Loop(cs, h) == IF cs = <<>> THEN h ELSE Loop(Tail(cs), findHeadings(d, Head(cs), h))
  IN Loop(Children(d, n), here)

\* DefaultHTMLParser.ExtractHeadings
ExtractHeadings(d) == findHeadings(d, 1, <<>>)

\* The version a doctype node's Data stands for (the if chain of
\* ExtractHTMLVersion and of analyzeNodeParallel).
DoctypeVersion(data) ==
  LET doctype == ToLower(data)
  IN IF Contains(doctype, Lit.html5) \/ doctype = Lit.html THEN "HTML 5"
     ELSE IF Contains(doctype, Lit.html401) THEN "HTML 4.01"
     ELSE IF Contains(doctype, Lit.xhtml10) THEN "XHTML 1.0"
     ELSE IF Contains(doctype, Lit.xhtml11) THEN "XHTML 1.1"
     ELSE "Unknown"

\* findDoctype of ExtractHTMLVersion: version after the walk of the subtree
\* of n.
RECURSIVE findDoctype(_, _, _)
findDoctype(d, n, version) ==
  LET here == IF d[n].Type = "Doctype" THEN DoctypeVersion(d[n].Data) ELSE version
      RECURSIVE Loop(_, _)
      Loop(cs, v) == IF cs = <<>> THEN v ELSE Loop(Tail(cs), findDoctype(d, Head(cs), v))
  IN Loop(Children(d, n), here)

\* DefaultHTMLParser.ExtractHTMLVersion: var version string starts empty.
ExtractHTMLVersion(d) == findDoctype(d, 1, "")

\* findForms of ExtractForms: forms after the walk of the subtree of n.
RECURSIVE findForms(_, _, _)
findForms(d, n, forms) ==
  LET here == IF d[n].Type = "Element" /\ d[n].Data = Lit.form THEN Append(forms, n) ELSE forms
      RECURSIVE Loop(_, _)
      Loop(cs, f) == IF cs = <<>> THEN f ELSE Loop(Tail(cs), findForms(d, Head(cs), f))
  IN Loop(Children(d, n), here)

\* DefaultHTMLParser.ExtractForms: the form nodes in document order.
ExtractForms(d) == findForms(d, 1, <<>>)

\* The Go string of a sequence of characters.
RECURSIVE Join(_)
Join(s) == IF s = <<>> THEN "" ELSE Head(s) \o Join(Tail(s))

\* A plausible slip: anchor links are not skipped.
SkippedHrefNoAnchor(href) == href = <<>> \/ HasPrefix(href, Lit.javascript)

\* href == "" || strings.HasPrefix(href, "javascript:") ||
\* strings.HasPrefix(href, "#")
SkippedHref(href) == href = <<>> \/ HasPrefix(href, Lit.javascript) \/ HasPrefix(href, Lit.hash)

\* The loop over n.Attr of findLinks: links after the attributes of an a
\* element.  An href that is skipped or that baseURL.Parse rejects adds
\* nothing; any other adds a record with the href as written.
hrefLinks(attrs, baseURL, links) ==
  LET RECURSIVE Scan(_, _)
      Scan(i, ls) ==
        IF i > Len(attrs) THEN ls
        ELSE LET href == attrs[i].Val
             IN IF attrs[i].Key /= Lit.href \/ SkippedHref(href) THEN Scan(i + 1, ls)
                ELSE IF ResolveReference(baseURL, Join(href)).err THEN Scan(i + 1, ls)
                ELSE Scan(i + 1, Append(ls, LinkInfo(href, IsInternalLink(baseURL, Join(href)))))
  IN Scan(1, links)

\* findLinks of ExtractLinks: links after the walk of the subtree of n.
RECURSIVE findLinks(_, _, _, _)
findLinks(d, n, baseURL, links) ==
  LET here == IF d[n].Type = "Element" /\ d[n].Data = Lit.anchor
                THEN hrefLinks(d[n].Attr, baseURL, links)
                ELSE links
      RECURSIVE Loop(_, _)
      Loop(cs, l) == IF cs = <<>> THEN l ELSE Loop(Tail(cs), findLinks(d, Head(cs), baseURL, l))
  IN Loop(Children(d, n), here)

\* DefaultHTMLParser.ExtractLinks: the link records in document order.
ExtractLinks(d, baseURL) == findLinks(d, 1, baseURL, <<>>)

\* The Val of the first attribute with the given Key ("" when there is
\* none): the loop with break of isLoginForm, lines 167-172.
FirstAttr(attrs, key) ==
  LET RECURSIVE Scan(_)
      Scan(i) == IF i > Len(attrs) THEN <<>>
                 ELSE IF attrs[i].Key = key THEN attrs[i].Val
                 ELSE Scan(i + 1)
  IN Scan(1)

\* Some attribute has the given Key and Val.
HasAttr(attrs, key, val) == \E i \in 1..Len(attrs) : attrs[i].Key = key /\ attrs[i].Val = val

\* checkInputs of DefaultPageAnalyzer.isLoginForm: the three flags after
\* the walk of the subtree of n.
RECURSIVE checkInputs(_, _, _)
checkInputs(d, n, flags) ==
  LET inputType == FirstAttr(d[n].Attr, Lit.type)
      here ==
        IF d[n].Type = "Element" /\ d[n].Data = Lit.input
          THEN [hasPassword |-> flags.hasPassword \/ inputType = Lit.password,
                hasUsername |-> flags.hasUsername \/ inputType \in {Lit.text, Lit.email},
                hasSubmit   |-> flags.hasSubmit \/ inputType = Lit.submit]
        ELSE IF d[n].Type = "Element" /\ d[n].Data = Lit.button
          THEN [flags EXCEPT !.hasSubmit = @ \/ HasAttr(d[n].Attr, Lit.type, Lit.submit)]
        ELSE flags
      RECURSIVE Loop(_, _)
      Loop(cs, f) == IF cs = <<>> THEN f ELSE Loop(Tail(cs), checkInputs(d, Head(cs), f))
  IN Loop(Children(d, n), here)

\* A plausible slip: the submit control is not asked for.
isLoginFormWithoutSubmit(d, form) ==
  LET flags == checkInputs(d, form, [hasPassword |-> FALSE, hasUsername |-> FALSE,
                                      hasSubmit |-> FALSE])
  IN flags.hasPassword /\ flags.hasUsername

\* DefaultPageAnalyzer.isLoginForm
isLoginForm(d, form) ==
  LET flags == checkInputs(d, form, [hasPassword |-> FALSE, hasUsername |-> FALSE,
                                      hasSubmit |-> FALSE])
  IN flags.hasPassword /\ flags.hasUsername /\ flags.hasSubmit


\* --------------------------------- DefaultPageAnalyzer.Analyze, extraction
MaxDocItems == 2

\* The subsequence of s at the indexes in keep.
Pick(s, keep) ==
  LET RECURSIVE From(_)
      From(i) == IF i > Len(s) THEN <<>>
                 ELSE IF i \in keep THEN <<s[i]>> \o From(i + 1)
                 ELSE From(i + 1)
  IN From(1)

\* The controls a form of the model may hold: any selection, in order, of a
\* password input, a text input and a submit input.
FormControls == <<InputOfType(Lit.password), InputOfType(Lit.text), InputOfType(Lit.submit)>>

FormItems ==
  {Item(Element(Lit.form, <<Attribute(Lit.action, a)>>), Pick(FormControls, keep)) :
     a \in {Lit.loginAction, Lit.searchAction}, keep \in SUBSET (1..3)}

\* The subtrees the model's documents are built from: doctypes, heading
\* elements and a thematic break, titles with and without text, forms.
ExtractItems ==
  {Item(Doctype(t), <<>>) : t \in {Lit.html, Lit.upperHtml401, Lit.svg}}
    \cup {Item(Element(t, <<>>), <<>>) : t \in {Lit.h1, Lit.h2, Lit.hr}}
    \cup {Item(Element(Lit.title, <<>>), k) : k \in {<<>>, <<TextNode(Lit.a)>>, <<TextNode(Lit.b)>>}}
    \cup FormItems

ExtractDocs == {DocOf(items) : items \in SeqsUpTo(ExtractItems, MaxDocItems)}

\* The hrefs the model's anchors are written with: empty, an anchor link, a
\* script link, a path, absolute URLs of two hosts, one of them in upper
\* case, an href that does not parse, and a mail address.
Hrefs ==
  {<<>>, Lit.hrefTop, Lit.hrefScript, Lit.hrefAbout, Lit.hrefOk, Lit.hrefOther,
   Lit.hrefUpper, Lit.hrefBad, Lit.hrefMail}

Anchor(href) == Element(Lit.anchor, <<Attribute(Lit.href, href)>>)

\* The subtrees with links: an a element for each href, one whose href comes
\* second, one without href, a heading with an href, and an a element inside
\* a heading.
LinkItems ==
  {Item(Anchor(h), <<>>) : h \in Hrefs}
    \cup {Item(Element(Lit.anchor, <<Attribute(Lit.type, Lit.text),
                                    Attribute(Lit.href, Lit.hrefAbout)>>), <<>>),
          Item(Element(Lit.anchor, <<>>), <<TextNode(Lit.a)>>),
          Item(Element(Lit.h1, <<Attribute(Lit.href, Lit.hrefAbout)>>), <<>>),
          Item(Element(Lit.h1, <<>>), <<Anchor(Lit.hrefOk)>>)}

LinkDocs == {DocOf(items) : items \in SeqsUpTo(LinkItems, MaxDocItems)}

\* The pages Analyze extracts from: the parsed document and the URL it was
\* fetched from.
ExtractBases == {"http://a.test/", "http://b.test/x"}

\* The controls of the forms isLoginForm is tried on: inputs of type
\* password, text, email and submit, a submit button and a plain button.
PolicyControls ==
  <<InputOfType(Lit.password), InputOfType(Lit.text), InputOfType(Lit.email),
    InputOfType(Lit.submit), Element(Lit.button, <<Attribute(Lit.type, Lit.submit)>>),
    Element(Lit.button, <<Attribute(Lit.type, Lit.button)>>)>>

\* The tree of a document with one form, whose controls are its children or,
\* when nested, the children of a div inside it.
FormDoc(action, controls, nested) ==
  LET top == <<Placed(NodeOf("Document", <<>>, <<>>), 0),
               Placed(Element(Lit.form, <<Attribute(Lit.action, action)>>), 1)>>
               \o (IF nested THEN <<Placed(Element(Lit.div, <<>>), 2)>> ELSE <<>>)
  IN top \o [k \in 1..Len(controls) |-> Placed(controls[k], Len(top))]

\* One search form with any selection of the controls, flat and nested.
PolicyDocs ==
  {FormDoc(Lit.searchAction, Pick(PolicyControls, keep), nested) :
     keep \in SUBSET (1..Len(PolicyControls)), nested \in BOOLEAN}

ExtractInputs ==
  [doc : ExtractDocs \cup PolicyDocs, base : {"http://a.test/"}]
    \cup [doc : LinkDocs, base : ExtractBases]

\* Analyze has parsed the body into doc and is about to extract.
ExtractInit ==
  /\ \E in \in ExtractInputs : doc = in.doc /\ exBase = in.base
  /\ exPc = "title"
  /\ exTitle = <<>>
  /\ exHeadings = <<>>
  /\ exHTMLVersion = ""
  /\ exHasLoginForm = FALSE
  /\ exLinks = <<>>

\* title := a.parser.ExtractTitle(doc)
ExTitle ==
  /\ exPc = "title"
  /\ exTitle' = ExtractTitle(doc)
  /\ exPc' = "headings"
  /\ UNCHANGED <<envVars, lcVars, plVars, anVars, hdVars, rtVars, prVars, doc, exHeadings, exHTMLVersion,
                 exHasLoginForm, exBase, exLinks, wkVars>>

\* headings := a.parser.ExtractHeadings(doc)
ExHeadings ==
  /\ exPc = "headings"
  /\ exHeadings' = ExtractHeadings(doc)
  /\ exPc' = "links"
  /\ UNCHANGED <<envVars, lcVars, plVars, anVars, hdVars, rtVars, prVars, doc, exTitle, exHTMLVersion,
                 exHasLoginForm, exBase, exLinks, wkVars>>

\* links := a.parser.ExtractLinks(doc, parsedURL)
ExLinks ==
  /\ exPc = "links"
  /\ exLinks' = ExtractLinks(doc, exBase)
  /\ exPc' = "version"
  /\ UNCHANGED <<envVars, lcVars, plVars, anVars, hdVars, rtVars, prVars, doc, exTitle, exHeadings,
                 exHTMLVersion, exHasLoginForm, exBase, wkVars>>

\* htmlVersion := a.parser.ExtractHTMLVersion(doc), after the forms were
\* collected.
ExVersion ==
  /\ exPc = "version"
  /\ exHTMLVersion' = ExtractHTMLVersion(doc)
  /\ exPc' = "classify"
  /\ UNCHANGED <<envVars, lcVars, plVars, anVars, hdVars, rtVars, prVars, doc, exTitle, exHeadings,
                 exHasLoginForm, exBase, exLinks, wkVars>>

\* hasLoginForm: the loop over forms that stops at the first form
\* isLoginForm accepts.
ExClassify ==
  /\ exPc = "classify"
  /\ LET forms == ExtractForms(doc)
     IN exHasLoginForm' = (\E i \in 1..Len(forms) : isLoginForm(doc, forms[i]))
  /\ exPc' = "done"
  /\ UNCHANGED <<envVars, lcVars, plVars, anVars, hdVars, rtVars, prVars, doc, exTitle, exHeadings,
                 exHTMLVersion, exBase, exLinks, wkVars>>

ExtractNext == ExTitle \/ ExHeadings \/ ExLinks \/ ExVersion \/ ExClassify

SpecExtractInit ==
  /\ config = [RetryAttempts |-> RouterRetryAttempts,
               MaxConcurrentLinks |-> RouterMaxConcurrentLinks]
  /\ ctxDone = FALSE
  /\ LCIdle /\ PLIdle /\ AnalyzeIdle /\ ProbeIdle /\ WalkIdle /\ HandlerIdle /\ RetryIdle
  /\ ExtractInit

SpecExtract == SpecExtractInit /\ [][ExtractNext]_vars

\* The element nodes of doc with the given tag.
ElementsWithTag(d, tag) == {n \in 1..Len(d) : d[n].Type = "Element" /\ d[n].Data = tag}

\* The form nodes of doc whose action attribute names a login or a sign-in.
FormsWithLoginAction(d) ==
  {n \in ElementsWithTag(d, Lit.form) :
     \E i \in 1..Len(d[n].Attr) :
       /\ d[n].Attr[i].Key = Lit.action
       /\ (Contains(d[n].Attr[i].Val, Lit.login) \/ Contains(d[n].Attr[i].Val, Lit.signin))}

\* C17: DefaultPageAnalyzer.Analyze reports a login form whenever some form
\* of the document has an action attribute containing "login" or "signin".
LoginActionClassifiesAsLogin ==
  (exPc = "done" /\ FormsWithLoginAction(doc) /= {}) => exHasLoginForm

\* C18: the headings map of DefaultPageAnalyzer.Analyze has keys among
\* h1..h6 only, each with the number of elements of that tag, so no other
\* two-letter tag that starts with h is counted.
HeadingsCountOnlyHeadingTags ==
  exPc \in {"links", "version", "classify", "done"} =>
     /\ DOMAIN exHeadings \subseteq HeadingTags
     /\ \A t \in HeadingTags :
          Cardinality(ElementsWithTag(doc, t)) =
            (IF t \in DOMAIN exHeadings THEN exHeadings[t] ELSE 0)

\* C19: the title is the text of the first child of the first title element,
\* in document order, that has a child; it is empty when there is none.
TitleIsFirstTitleElement ==
  LET titled == {n \in ElementsWithTag(doc, Lit.title) : Children(doc, n) /= <<>>}
      first == CHOOSE n \in titled : \A m \in titled : n <= m
  IN exPc /= "title" =>
       exTitle = (IF titled = {} THEN <<>> ELSE doc[Children(doc, first)[1]].Data)

\* C20: the HTML version is one of the five names, and "Unknown" for a
\* document without a doctype node.
VersionUnknownWithoutDoctype ==
  exPc \in {"classify", "done"} =>
     /\ exHTMLVersion \in {"HTML 5", "HTML 4.01", "XHTML 1.0", "XHTML 1.1", "Unknown"}
     /\ (\A n \in 1..Len(doc) : doc[n].Type /= "Doctype") => exHTMLVersion = "Unknown"


\* --------------------------- PageAnalyzer.analyzeNodeParallel, analyzeForm
\* A plausible slip: only the node and its children are looked at.
containsPasswordInputAmongChildren(d, n) ==
  \E m \in {n} \cup {k \in 1..Len(d) : d[k].parent = n} :
    /\ d[m].Type = "Element"
    /\ d[m].Data = Lit.input
    /\ HasAttr(d[m].Attr, Lit.type, Lit.password)

\* PageAnalyzer.containsPasswordInput
RECURSIVE containsPasswordInput(_, _)
containsPasswordInput(d, n) ==
  \/ /\ d[n].Type = "Element"
     /\ d[n].Data = Lit.input
     /\ HasAttr(d[n].Attr, Lit.type, Lit.password)
  \/ LET kids == Children(d, n)
     IN \E i \in 1..Len(kids) : containsPasswordInput(d, kids[i])

\* Some action attribute of form n contains "login" or "signin".
ActionNamesLogin(d, n) ==
  \E i \in 1..Len(d[n].Attr) :
    /\ d[n].Attr[i].Key = Lit.action
    /\ (Contains(d[n].Attr[i].Val, Lit.login) \/ Contains(d[n].Attr[i].Val, Lit.signin))

\* The heading rule of analyzeNodeParallel.
IsHeading(d, n) ==
  d[n].Type = "Element" /\ HasPrefix(d[n].Data, <<"h">>) /\ Len(d[n].Data) = 2

\* The subtrees the walked documents are built from.
WalkItems ==
  {Item(Doctype(Lit.html), <<>>),
   Item(Element(Lit.h1, <<>>), <<>>),
   Item(Element(Lit.h2, <<>>), <<>>),
   Item(Element(Lit.title, <<>>), <<TextNode(Lit.a)>>),
   Item(Element(Lit.form, <<Attribute(Lit.action, Lit.loginAction)>>), <<>>),
   Item(Element(Lit.form, <<Attribute(Lit.action, Lit.searchAction)>>), <<>>),
   Item(Element(Lit.form, <<Attribute(Lit.action, Lit.searchAction)>>),
        <<InputOfType(Lit.password)>>)}

\* Pages with one search form: text and submit inputs only, a text and a
\* password input, a password input inside a div, a text input inside a
\* div, and a button whose type is password.
PasswordDocs ==
  {FormDoc(Lit.searchAction, <<InputOfType(Lit.text), InputOfType(Lit.submit)>>, FALSE),
   FormDoc(Lit.searchAction, <<InputOfType(Lit.text), InputOfType(Lit.password)>>, FALSE),
   FormDoc(Lit.searchAction, <<InputOfType(Lit.password)>>, TRUE),
   FormDoc(Lit.searchAction, <<InputOfType(Lit.text)>>, TRUE),
   FormDoc(Lit.searchAction, <<Element(Lit.button, <<Attribute(Lit.type, Lit.password)>>)>>, FALSE)}

WalkDocs == {DocOf(items) : items \in SeqsUpTo(WalkItems, MaxDocItems)} \cup PasswordDocs

Nodes == 1..Len(doc)

\* Analyze has built the result container and calls
\* analyzeNodeParallel(doc, result).
WalkInit ==
  /\ doc \in WalkDocs
  /\ wPc = [n \in 1..Len(doc) |-> IF n = 1 THEN "start" ELSE "unborn"]
  /\ wTmp = [n \in 1..Len(doc) |-> 0]
  /\ wFormPc = [n \in 1..Len(doc) |-> "none"]
  /\ wSeen = [n \in 1..Len(doc) |-> FALSE]
  /\ wResult = [HeadingCount |-> <<>>, Title |-> <<>>, HTMLVersion |-> "Unknown",
                HasLoginForm |-> FALSE]
  /\ wFatal = FALSE

\* The mutex declared by the invocation for node n is held: by the
\* invocation itself or by the analyzeForm goroutine it handed &mutex to.
MutexHeld(n) == wPc[n] \in {"locked", "read"} \/ wFormPc[n] = "locked"

\* Where the loop of lines 331-337 of the invocation for node n stands: the
\* first child, following NextSibling, whose goroutine has not been started
\* (0 when there is none left).
NextChild(n) ==
  LET unborn == SelectSeq(Children(doc, n), LAMBDA c : wPc[c] = "unborn")
  IN IF unborn = <<>> THEN 0 ELSE unborn[1]

\* A node that is neither a doctype nor an element: straight to the loop
\* over the children.
NSkip(n) ==
  /\ ~wFatal
  /\ wPc[n] = "start"
  /\ doc[n].Type \notin {"Doctype", "Element"}
  /\ wPc' = [wPc EXCEPT ![n] = "wait"]
  /\ UNCHANGED <<envVars, lcVars, plVars, anVars, hdVars, rtVars, prVars, doc, exVars, wTmp, wFormPc, wSeen,
                 wResult, wFatal>>

\* mutex.Lock() on the invocation's own mutex, in the doctype and in the
\* element branch.
NLock(n) ==
  /\ ~wFatal
  /\ wPc[n] = "start"
  /\ doc[n].Type \in {"Doctype", "Element"}
  /\ ~MutexHeld(n)
  /\ wPc' = [wPc EXCEPT ![n] = "locked"]
  /\ UNCHANGED <<envVars, lcVars, plVars, anVars, hdVars, rtVars, prVars, doc, exVars, wTmp, wFormPc, wSeen,
                 wResult, wFatal>>

\* result.HeadingCount[headingLevel]++, first half: the load of the count.
NRead(n) ==
  /\ ~wFatal
  /\ wPc[n] = "locked"
  /\ IsHeading(doc, n)
  /\ wTmp' = [wTmp EXCEPT ![n] = IF doc[n].Data \in DOMAIN wResult.HeadingCount
                                   THEN wResult.HeadingCount[doc[n].Data] ELSE 0]
  /\ wPc' = [wPc EXCEPT ![n] = "read"]
  /\ UNCHANGED <<envVars, lcVars, plVars, anVars, hdVars, rtVars, prVars, doc, exVars, wFormPc, wSeen,
                 wResult, wFatal>>

\* The rest of the locked section: the store of the count, the title, the
\* version of a doctype; mutex.Unlock().  A form element goes on to the go
\* statement of lines 322-327, every other node to the loop over its
\* children.
NFinish(n) ==
  /\ ~wFatal
  /\ \/ wPc[n] = "read"
     \/ wPc[n] = "locked" /\ ~IsHeading(doc, n)
  /\ wResult' =
       IF doc[n].Type = "Doctype"
         THEN [wResult EXCEPT !.HTMLVersion = DoctypeVersion(doc[n].Data)]
       ELSE IF IsHeading(doc, n)
         THEN [wResult EXCEPT !.HeadingCount = MapPut(@, doc[n].Data, wTmp[n] + 1)]
       ELSE IF doc[n].Data = Lit.title /\ Children(doc, n) /= <<>>
         THEN [wResult EXCEPT !.Title = doc[Children(doc, n)[1]].Data]
       ELSE wResult
  /\ wPc' = [wPc EXCEPT ![n] = IF doc[n].Type = "Element" /\ doc[n].Data = Lit.form
                                 THEN "form" ELSE "wait"]
  /\ UNCHANGED <<envVars, lcVars, plVars, anVars, hdVars, rtVars, prVars, doc, exVars, wTmp, wFormPc, wSeen,
                 wFatal>>

\* if n.Data == "form" { wg.Add(1); go func(node) { defer wg.Done();
\* a.analyzeForm(node, result, &mutex) }(n) }
NSpawnForm(n) ==
  /\ ~wFatal
  /\ wPc[n] = "form"
  /\ wFormPc' = [wFormPc EXCEPT ![n] = "start"]
  /\ wPc' = [wPc EXCEPT ![n] = "wait"]
  /\ UNCHANGED <<envVars, lcVars, plVars, anVars, hdVars, rtVars, prVars, doc, exVars, wTmp, wSeen,
                 wResult, wFatal>>

\* One round of the loop over the children: wg.Add(1); go func(child) {
\* defer wg.Done(); a.analyzeNodeParallel(child, result) }(c)
NSpawnChild(n) ==
  /\ ~wFatal
  /\ wPc[n] = "wait"
  /\ NextChild(n) /= 0
  /\ wPc' = [wPc EXCEPT ![NextChild(n)] = "start"]
  /\ UNCHANGED <<envVars, lcVars, plVars, anVars, hdVars, rtVars, prVars, doc, exVars, wTmp, wFormPc, wSeen,
                 wResult, wFatal>>

\* wg.Wait() returns: every goroutine the invocation started has called
\* wg.Done().
NWait(n) ==
  /\ ~wFatal
  /\ wPc[n] = "wait"
  /\ NextChild(n) = 0
  /\ wFormPc[n] \in {"none", "done"}
  /\ \A m \in Nodes : doc[m].parent = n => wPc[m] = "done"
  /\ wPc' = [wPc EXCEPT ![n] = "done"]
  /\ UNCHANGED <<envVars, lcVars, plVars, anVars, hdVars, rtVars, prVars, doc, exVars, wTmp, wFormPc, wSeen,
                 wResult, wFatal>>

\* analyzeForm, the loop over the attributes: an action naming a login leads
\* to the locked assignment of true; otherwise the flag is read without the
\* lock and the goroutine returns when it reads true.
FInspect(n) ==
  /\ ~wFatal
  /\ wFormPc[n] = "start"
  /\ IF ActionNamesLogin(doc, n)
       THEN /\ wFormPc' = [wFormPc EXCEPT ![n] = "lock"]
            /\ UNCHANGED wSeen
       ELSE /\ wSeen' = [wSeen EXCEPT ![n] = wResult.HasLoginForm]
            /\ wFormPc' = [wFormPc EXCEPT ![n] = IF wResult.HasLoginForm THEN "done" ELSE "lock"]
  /\ UNCHANGED <<envVars, lcVars, plVars, anVars, hdVars, rtVars, prVars, doc, exVars, wPc, wTmp, wResult,
                 wFatal>>

\* mutex.Lock() in analyzeForm, on the mutex of the form's invocation.
FLock(n) ==
  /\ ~wFatal
  /\ wFormPc[n] = "lock"
  /\ ~MutexHeld(n)
  /\ wFormPc' = [wFormPc EXCEPT ![n] = "locked"]
  /\ UNCHANGED <<envVars, lcVars, plVars, anVars, hdVars, rtVars, prVars, doc, exVars, wPc, wTmp, wSeen,
                 wResult, wFatal>>

\* The assignment to result.HasLoginForm, mutex.Unlock() and the return.
FFinish(n) ==
  /\ ~wFatal
  /\ wFormPc[n] = "locked"
  /\ wResult' = [wResult EXCEPT !.HasLoginForm =
                   IF ActionNamesLogin(doc, n) THEN TRUE ELSE containsPasswordInput(doc, n)]
  /\ wFormPc' = [wFormPc EXCEPT ![n] = "done"]
  /\ UNCHANGED <<envVars, lcVars, plVars, anVars, hdVars, rtVars, prVars, doc, exVars, wPc, wTmp, wSeen,
                 wFatal>>

\* Two invocations are inside HeadingCount[...]++ at once and the runtime
\* notices: "fatal error: concurrent map writes" ends the process.
WConcurrentMapWrites ==
  /\ ~wFatal
  /\ \E n, m \in Nodes : n /= m /\ wPc[n] = "read" /\ wPc[m] = "read"
  /\ wFatal' = TRUE
  /\ UNCHANGED <<envVars, lcVars, plVars, anVars, hdVars, rtVars, prVars, doc, exVars, wPc, wTmp, wFormPc,
                 wSeen, wResult>>

WalkNext ==
  \/ \E n \in Nodes : NSkip(n)
  \/ \E n \in Nodes : NLock(n)
  \/ \E n \in Nodes : NRead(n)
  \/ \E n \in Nodes : NFinish(n)
  \/ \E n \in Nodes : NSpawnForm(n)
  \/ \E n \in Nodes : NSpawnChild(n)
  \/ \E n \in Nodes : NWait(n)
  \/ \E n \in Nodes : FInspect(n)
  \/ \E n \in Nodes : FLock(n)
  \/ \E n \in Nodes : FFinish(n)
  \/ WConcurrentMapWrites

SpecWalkInit ==
  /\ config = [RetryAttempts |-> RouterRetryAttempts,
               MaxConcurrentLinks |-> RouterMaxConcurrentLinks]
  /\ ctxDone = FALSE
  /\ LCIdle /\ PLIdle /\ AnalyzeIdle /\ ProbeIdle /\ ExtractIdle /\ HandlerIdle /\ RetryIdle
  /\ WalkInit

SpecWalk == SpecWalkInit /\ [][WalkNext]_vars

\* The goroutines inside a section that mutates the shared result: node
\* invocations and analyzeForm goroutines, by node.
InSection ==
  {<<"node", n>> : n \in {m \in Nodes : wPc[m] \in {"locked", "read"}}}
    \cup {<<"form", n>> : n \in {m \in Nodes : wFormPc[m] = "locked"}}

\* C14: when the parallel walk has returned, HasLoginForm is true if some
\* form of the page has an action naming a login or holds a password input,
\* whatever the interleaving of the analyzeForm goroutines.
LoginFormSurvivesOtherForms ==
  (WalkReturned /\ \E n \in ElementsWithTag(doc, Lit.form) :
                      ActionNamesLogin(doc, n) \/ containsPasswordInput(doc, n))
    => wResult.HasLoginForm

\* C15: when the parallel walk has returned, HeadingCount[t] is the number
\* of elements with tag t that match the heading rule, for every
\* interleaving: no increment is lost.
NoHeadingIncrementLost ==
  WalkReturned =>
    \A t \in {doc[n].Data : n \in {m \in Nodes : IsHeading(doc, m)}} \cup DOMAIN wResult.HeadingCount :
      /\ t \in DOMAIN wResult.HeadingCount
      /\ wResult.HeadingCount[t] = Cardinality({n \in Nodes : IsHeading(doc, n) /\ doc[n].Data = t})

\* C16: at most one goroutine of the parallel walk is inside a section that
\* mutates the shared result.
MutatingSectionsExclusive == Cardinality(InSection) <= 1


\* C23: in DefaultPageAnalyzer.Analyze the link-check phase leaves the Links
\* sequence as extraction produced it: no step from the start of the checks
\* on changes it, and the result carries exactly that sequence, in order,
\* with the same URL and IsInternal values.
LinksFixedAtExtraction ==
  [][(variant = "default" /\ apc \in {"CheckingLinks", "ClassifyingForms", "Assembled"}) =>
        /\ aLinks' = aLinks
        /\ apc' = "Assembled" => (~result'.isNil /\ result'.Links = aLinks)]_vars

\* An analysis returned two different links in document order although a
\* check of one of them failed.
AssembledTwoLinksOneDead ==
  /\ variant = "default"
  /\ apc = "Assembled"
  /\ Len(result.Links) = 2
  /\ result.Links[1].URL /= result.Links[2].URL
  /\ checkLog = <<FALSE, TRUE>>

\* C24: DefaultPageAnalyzer.Analyze probes each link at its href resolved
\* against the page's URL, so the check of a link whose resolved target is
\* an http or https URL can find it accessible; a relative link such as
\* "/about" on a live site is then counted in AccessibleLinks.
ResolvedLinkCanBeAccessible ==
  (/\ variant = "default"
   /\ apc = "CheckingLinks"
   /\ aIdx <= Len(aLinks)
   /\ ~ctxDone
   /\ ResolveReference(targetURL, aLinks[aIdx].URL).Scheme \in {"http", "https"}) =>
     ENABLED (ACheckLink /\ checkLog' = Append(checkLog, TRUE))


\* C29: DefaultPageAnalyzer.fetchPage issues at most RetryAttempts GET
\* requests; it goes on to another attempt only after a transport error or a
\* status >= 500 and hands the first response with a status below 500 to
\* Analyze without a further request; when the last of the RetryAttempts
\* attempts fails it returns FETCH_FAILED and no response.
FetchRetriesOnlyServerFailures ==
  /\ [](variant = "default" => gets <= config.RetryAttempts)
  /\ [][variant = "default" =>
          /\ (apc = "FetchWait" /\ apc' = "Parsing") =>
               (fetchStatus' /= TransportErr /\ fetchStatus' < 500)
          /\ (apc = "FetchWait" /\ apc' \in {"Backoff", "Failed"}) =>
               (fetchStatus' = TransportErr \/ fetchStatus' >= 500)
          /\ (apc = "FetchWait" /\ apc' = "Backoff") => gets < config.RetryAttempts
          /\ (apc = "FetchWait" /\ apc' = "Failed") =>
               (gets = config.RetryAttempts /\ err' = "FETCH_FAILED" /\ result' = NilResult)
          /\ apc \notin {"Created", "Fetching", "FetchWait", "Backoff"} => gets' = gets]_vars

\* Every one of three attempts failed and the analysis ended FETCH_FAILED.
AllAttemptsFailed ==
  /\ variant = "default"
  /\ config.RetryAttempts = 3
  /\ gets = 3
  /\ apc = "Failed"
  /\ err = "FETCH_FAILED"

\* C30: in fetchPage the wait after failed attempt i (from 0) is 2^i
\* seconds and no wait follows the last attempt: once the fetch has ended
\* the number of waits is the number of attempts made minus one.
BackoffDoublesBetweenAttempts ==
  variant = "default" =>
    /\ \A i \in 1..Len(sleeps) : sleeps[i] = 2 ^ (i - 1)
    /\ gets >= 1 =>
         Len(sleeps) = (IF apc \in {"Backoff", "Fetching"} THEN gets ELSE gets - 1)

\* Three attempts failed with waits of one and of two seconds between them.
FailedAfterTwoWaits ==
  /\ variant = "default"
  /\ apc = "Failed"
  /\ gets = 3
  /\ sleeps = <<1, 2>>


\* C27: the inaccessible-link count the sequential PageAnalyzer.Analyze
\* returns is the number of links found unreachable; it is 0 when no link of
\* the page was found unreachable.
InaccessibleCountsUnreachableLinks ==
  (variant = "sequential" /\ apc = "Assembled") =>
     result.InaccessibleLinks = Cardinality({i \in 1..Len(checkLog) : ~checkLog[i]})


\* C25: CheckLinksConcurrently returns only after every spawned check has
\* finished; the returned map has exactly one entry for each distinct URL of
\* the list, holding an outcome a check of that URL can have; and at most
\* one goroutine at a time is between mu.Lock() and mu.Unlock(), where the
\* map is written.
ResultsCompleteAndSerialized ==
  /\ Cardinality({w \in Workers : lcPc[w] = "cs"}) <= 1
  /\ \A u \in DOMAIN results :
       /\ \E w \in Workers : lcLinks[w].URL = u /\ lcPc[w] \notin {"idle", "sem", "head", "lock"}
       /\ results[u] \in CheckAccessibility(FALSE, u) \cup CheckAccessibility(TRUE, u)
  /\ lcMain = "returned" =>
       /\ \A w \in Workers : lcPc[w] = "done"
       /\ DOMAIN results = {lcLinks[w].URL : w \in Workers}

\* A call with three links, two of them the same URL, has returned a map
\* with two entries: the usable URL accessible, the unparsable one not.
ReturnedTwoEntriesForThreeLinks ==
  /\ lcMain = "returned"
  /\ Len(lcLinks) = 3
  /\ DOMAIN results = {"http://a.test/ok", "%zz"}
  /\ results["http://a.test/ok"]
  /\ ~results["%zz"]


\* C28: every invocation of DefaultPageAnalyzer.Analyze that has returned
\* counted one request and recorded one duration, and counted one error
\* when it returned an error.
EveryAnalysisIsCounted ==
  (variant = "default" /\ apc \in Terminal) =>
    /\ metrics.requests = 1
    /\ metrics.durations = 1
    /\ metrics.errors = (IF err /= NilError THEN 1 ELSE 0)


\* The href attributes of the a elements of d, as pairs of node and
\* attribute index, that the filter keeps.
FilteredHrefs(d) ==
  {na \in UNION {{<<n, i>> : i \in 1..Len(d[n].Attr)} : n \in ElementsWithTag(d, Lit.anchor)} :
     /\ d[na[1]].Attr[na[2]].Key = Lit.href
     /\ d[na[1]].Attr[na[2]].Val /= <<>>
     /\ ~HasPrefix(d[na[1]].Attr[na[2]].Val, Lit.javascript)
     /\ ~HasPrefix(d[na[1]].Attr[na[2]].Val, Lit.hash)}

\* No record of the list has a URL that is empty, a script or an anchor.
NoSkippedURL(links) ==
  \A i \in 1..Len(links) :
    /\ links[i].URL /= <<>>
    /\ ~HasPrefix(links[i].URL, Lit.javascript)
    /\ ~HasPrefix(links[i].URL, Lit.hash)

\* C21 as stated: ExtractLinks returns one record for every href of an a
\* element that is not empty, not a script and not an anchor, whether or not
\* the href resolves.
LinksCountFilteredHrefs ==
  exPc \in {"version", "classify", "done"} =>
    /\ Len(exLinks) = Cardinality(FilteredHrefs(doc))
    /\ NoSkippedURL(exLinks)

\* C21: ExtractLinks returns one record for every href of an a element that
\* is not empty, not a script and not an anchor and that resolves against
\* the base URL; no record has a URL that is empty, a script or an anchor.
LinksCountResolvableFilteredHrefs ==
  exPc \in {"version", "classify", "done"} =>
    /\ Len(exLinks) =
         Cardinality({na \in FilteredHrefs(doc) :
                        ~UrlParse(Join(doc[na[1]].Attr[na[2]].Val)).err})
    /\ NoSkippedURL(exLinks)

\* Extraction is over for a page with a link that resolves and an href that
\* does not: one record.
OneLinkBesideUnresolvableHref ==
  /\ exPc = "done"
  /\ Cardinality(FilteredHrefs(doc)) = 2
  /\ Len(exLinks) = 1
  /\ exLinks[1].URL = Lit.hrefAbout


\* The values of the href attributes of the a elements of d, as written.
RawHrefs(d) ==
  UNION {{d[n].Attr[i].Val : i \in {j \in 1..Len(d[n].Attr) : d[n].Attr[j].Key = Lit.href}} :
           n \in ElementsWithTag(d, Lit.anchor)}

\* C22: every link record of ExtractLinks holds an href as the document has
\* it, and is internal exactly when the host of that href resolved against
\* the base URL is empty or is, character for character, the base's host.
InternalIffResolvedHostEmptyOrBase ==
  exPc \in {"version", "classify", "done"} =>
    \A i \in 1..Len(exLinks) :
      /\ exLinks[i].URL \in RawHrefs(doc)
      /\ exLinks[i].IsInternal =
           (LET host == ResolveReference(exBase, Join(exLinks[i].URL)).Host
            IN host = "" \/ host = UrlParse(exBase).Host)

\* Extraction is over for a page of a.test with a mail link and a link to
\* the host written in upper case.
HostlessAndUpperCaseLinksClassified ==
  /\ exPc = "done"
  /\ exBase = "http://a.test/"
  /\ exLinks = <<LinkInfo(Lit.hrefMail, TRUE), LinkInfo(Lit.hrefUpper, FALSE)>>


\* The request is a POST whose form has a url that is not empty and parses
\* to a URL with scheme http or https.
AnalyzableRequest ==
  /\ hReq.method = "POST"
  /\ hReq.formOk
  /\ hReq.url /= ""
  /\ ~UrlParse(hReq.url).err
  /\ UrlParse(hReq.url).Scheme \in {"http", "https"}

\* C26 as stated: the handler calls Analyze only for an analyzable request,
\* and answers any other request with a redirect to / or with the index page
\* and an error.
RejectedWithRedirectOrIndexPage ==
  /\ variant /= "none" => AnalyzableRequest /\ targetURL = hReq.url
  /\ (hPc = "responded" /\ ~AnalyzableRequest) =>
       /\ variant = "none"
       /\ \/ hResp = Response(303, "/", "")
          \/ hResp.page = "index.html" /\ hResp.message /= ""

\* C26: the handler calls Analyze only for an analyzable request; any other
\* request starts no analysis and is answered with a redirect to / when it
\* is not a POST, with 400 Bad Request when its form does not parse, and
\* otherwise with the index page and an error, or with 500 when that page
\* cannot be rendered.
AnalyzeOnlyForValidatedRequests ==
  /\ variant /= "none" => AnalyzableRequest /\ targetURL = hReq.url
  /\ (hPc = "responded" /\ ~AnalyzableRequest) =>
       /\ variant = "none"
       /\ IF hReq.method /= "POST" THEN hResp = Response(303, "/", "")
          ELSE IF ~hReq.formOk THEN hResp = Response(400, "", "Bad Request")
          ELSE \/ hResp.page = "index.html" /\ hResp.message /= ""
               \/ hResp = Response(500, "", "Internal Server Error")

\* The handler has answered a POST for an ftp URL with the index page and
\* the error, without an analysis.
FtpRequestRejected ==
  /\ hPc = "responded"
  /\ hReq = [method |-> "POST", formOk |-> TRUE, url |-> "ftp://a.test/"]
  /\ hResp = Response(200, "index.html", "Invalid URL")
  /\ variant = "none"


\* C31: CheckWithRetry calls CheckAccessibility at most RetryAttempts times;
\* a call that returns true ends it at once with true, with no further call
\* or wait; at a wait under a cancelled context its next step returns false
\* without a further call; and it returns false when every call failed.
CheckWithRetryStopsEarly ==
  /\ [](rFn = "CheckWithRetry" =>
          /\ Len(rCalls) <= config.RetryAttempts
          /\ \A i \in 1..Len(rCalls) :
               rCalls[i] => (i = Len(rCalls) /\ Len(rWaits) = i - 1 /\ rPc = "returned" /\ rRet)
          /\ (rPc = "returned" /\ \A i \in 1..Len(rCalls) : ~rCalls[i]) => ~rRet
          /\ Len(rWaits) <= Len(rCalls))
  /\ [][(rFn = "CheckWithRetry" /\ rPc = "wait" /\ ctxDone) =>
          (rPc' = "returned" /\ rRet' = FALSE /\ rCalls' = rCalls /\ rWaits' = rWaits)]_vars

\* CheckWithRetry returned false at the cancellation it met in the wait
\* after its second failed check, with one more attempt allowed.
CancelledInSecondWait ==
  /\ rFn = "CheckWithRetry"
  /\ rPc = "returned"
  /\ ~rRet
  /\ ctxDone
  /\ rCalls = <<FALSE, FALSE>>
  /\ rWaits = <<1>>
  /\ config.RetryAttempts = 3


\* C37: RetryWithBackoff returns nil only if some call of fn returned nil,
\* whatever RetryAttempts is; at a wait under a cancelled context it returns
\* the context's error; any other error it returns is that of the last of
\* RetryAttempts failed calls of fn.
RetryReturnsNilOnlyAfterSuccess ==
  /\ [](rFn = "RetryWithBackoff" /\ rPc = "returned" =>
          /\ rRet = "nil" => \E i \in 1..Len(rCalls) : rCalls[i] = "nil"
          /\ rRet \notin {"nil", CtxErr} =>
               /\ Len(rCalls) = config.RetryAttempts
               /\ rRet = rCalls[Len(rCalls)])
  /\ [][(rFn = "RetryWithBackoff" /\ rPc = "wait" /\ ctxDone) =>
          (rPc' = "returned" /\ rRet' = CtxErr)]_vars


\* C38: whatever RetryAttempts is, DefaultPageAnalyzer.Analyze reports
\* FETCH_FAILED for a target URL that parses and has scheme http or https
\* only after it has handed at least one GET request to the client.
FetchFailedOnlyAfterRequest ==
  (variant = "default" /\ apc = "Failed" /\ err = "FETCH_FAILED"
     /\ ~UrlParse(targetURL).err /\ UrlParse(targetURL).Scheme \in {"http", "https"}) =>
    gets >= 1


\* Node n of d lies in the subtree of node root.
RECURSIVE Within(_, _, _)
Within(d, n, root) == n = root \/ (d[n].parent /= 0 /\ Within(d, d[n].parent, root))

\* The subtree of form f holds an element with the tag and a type
\* attribute among the given types.
FormHolds(d, f, tag, types) ==
  \E n \in ElementsWithTag(d, tag) :
    /\ Within(d, n, f)
    /\ \E i \in 1..Len(d[n].Attr) : d[n].Attr[i].Key = Lit.type /\ d[n].Attr[i].Val \in types

\* C35: on a page whose forms have no action that names a login,
\* DefaultPageAnalyzer reports a login form exactly when some form holds, at
\* any depth, a password input, a text or email input and a submit control
\* (a submit input or a submit button).
StrictPolicyOnForms ==
  (exPc = "done" /\ FormsWithLoginAction(doc) = {}) =>
    exHasLoginForm =
      (\E f \in ElementsWithTag(doc, Lit.form) :
         /\ FormHolds(doc, f, Lit.input, {Lit.password})
         /\ FormHolds(doc, f, Lit.input, {Lit.text, Lit.email})
         /\ (FormHolds(doc, f, Lit.input, {Lit.submit})
               \/ FormHolds(doc, f, Lit.button, {Lit.submit})))

\* The form of the page has, inside a div, a password input, an email input
\* and a submit button, and was taken for a login form; without the button
\* it would hold a password and an email input only.
NestedEmailPasswordButtonForm ==
  /\ exPc = "done"
  /\ exHasLoginForm
  /\ doc = FormDoc(Lit.searchAction,
                   <<InputOfType(Lit.password), InputOfType(Lit.email),
                     Element(Lit.button, <<Attribute(Lit.type, Lit.submit)>>)>>, TRUE)


\* C36: on a page with one form, whose action names no login, the parallel
\* walk leaves HasLoginForm true exactly when the form holds, at any depth,
\* an input element with type password; text and submit inputs alone leave
\* it false.
PasswordInputDecidesForm ==
  (WalkReturned /\ Cardinality(ElementsWithTag(doc, Lit.form)) = 1
     /\ FormsWithLoginAction(doc) = {}) =>
    wResult.HasLoginForm =
      (\E f \in ElementsWithTag(doc, Lit.form) : FormHolds(doc, f, Lit.input, {Lit.password}))

\* The walk has returned for the page whose form has a password input inside
\* a div, and reports a login form.
NestedPasswordInputFound ==
  /\ WalkReturned
  /\ doc = FormDoc(Lit.searchAction, <<InputOfType(Lit.password)>>, TRUE)
  /\ wResult.HasLoginForm


\* ------------------------------------------------ balance of the two gates
\* The goroutines of CheckLinksConcurrently that hold a slot: past
\* semaphore <- struct{}{} and before the deferred <-semaphore.
LCHolders == {w \in Workers : lcPc[w] \in {"head", "lock", "cs", "rel"}}

\* The link goroutines of processLinks that hold a slot: spawned with the
\* slot processLinks took for them, before their deferred <-semaphore.
PLHolders == AtStage(plW, {"check", "lock", "cs", "rel"})

\* C34: in CheckLinksConcurrently and in processLinks the number of held
\* slots is at every moment the number of checks that have acquired a slot
\* and not yet released it, and it is 0 once the operation has returned; a
\* goroutine that leaves its body gives back exactly one slot, whether its
\* check returned true or false, and no other step takes a slot back.
GateIsBalanced ==
  /\ [](/\ semaphore = Cardinality(LCHolders)
        /\ plSem = PLHolders
        /\ lcMain = "returned" => semaphore = 0
        /\ plProc = "done" => plSem = 0)
  /\ [][/\ \A w \in Workers :
             lcPc[w] = "rel" /\ lcPc'[w] /= "rel" =>
               semaphore' = semaphore - 1 /\ lcPc'[w] = "fin"
        /\ semaphore' < semaphore => \E w \in Workers : lcPc[w] = "rel" /\ lcPc'[w] = "fin"
        /\ AtStage(plW', {"rel"}) < AtStage(plW, {"rel"}) => plSem' = plSem - 1
        /\ plSem' < plSem => AtStage(plW', {"fin"}) = AtStage(plW, {"fin"}) + 1]_vars

\* CheckLinksConcurrently has returned with no slot held, after one check
\* that succeeded and one that failed.
ReturnedBalancedAfterMixedChecks ==
  /\ lcMain = "returned"
  /\ semaphore = 0
  /\ \E u \in DOMAIN results : results[u]
  /\ \E u \in DOMAIN results : ~results[u]


\* ------------------------------------------- the counters of processLinks
\* C33: in the parallel PageAnalyzer, whatever the interleaving of the link
\* goroutines, InaccessibleLinks never exceeds InternalLinks + ExternalLinks
\* while the pipeline runs; and when Analyze has returned its result,
\* InternalLinks + ExternalLinks is the number of links collectLinks sent,
\* InternalLinks the number of those whose IsInternal is true, and
\* InaccessibleLinks the number of those whose check returned false.
ParallelCountersMatchLinks ==
  variant = "parallel" =>
    /\ presult.InaccessibleLinks <= presult.InternalLinks + presult.ExternalLinks
    /\ apc = "Assembled" =>
         /\ plSent = Len(plLinks)
         /\ result.InternalLinks + result.ExternalLinks = plSent
         /\ result.InternalLinks = CountInternal(plLinks, TRUE)
         /\ result.InaccessibleLinks = plFalse

\* The parallel Analyze has returned for a page with an internal and an
\* external link, one of which was found accessible and the other not.
ParallelReturnedWithMixedLinks ==
  /\ variant = "parallel"
  /\ apc = "Assembled"
  /\ Len(plLinks) = 2
  /\ result.InternalLinks = 1
  /\ result.ExternalLinks = 1
  /\ result.InaccessibleLinks = 1


\* C39: under every configuration with MaxConcurrentLinks >= 0, when every
\* probe returns, a call of CheckLinksConcurrently eventually returns.
CheckLinksConcurrentlyReturns == <>(lcMain = "returned")


\* ----------------------- the parallel Analyze, lines 105-157, with the walk
\* The pages of one link at most.
ShortPages == SeqsUpTo(PageHrefs, 1)

\* A document without a doctype, an element or a text.
PlainDoc == DocOf(<<>>)

\* A document with two headings of one level, and one with a single
\* heading.
TwoHeadingsDoc ==
  DocOf(<<Item(Element(Lit.h2, <<>>), <<>>), Item(Element(Lit.h2, <<>>), <<>>)>>)

OneHeadingDoc == DocOf(<<Item(Element(Lit.h1, <<>>), <<>>)>>)

\* The documents walked while the pipeline runs: two headings of one
\* level, a search form with a password input beside a title, a login form
\* beside a heading and a doctype.
PipelineDocs ==
  {TwoHeadingsDoc,
   DocOf(<<Item(Element(Lit.form, <<Attribute(Lit.action, Lit.searchAction)>>),
                <<InputOfType(Lit.password)>>),
           Item(Element(Lit.title, <<>>), <<TextNode(Lit.a)>>)>>),
   DocOf(<<Item(Doctype(Lit.html), <<>>),
           Item(Element(Lit.form, <<Attribute(Lit.action, Lit.loginAction)>>), <<>>),
           Item(Element(Lit.h1, <<>>), <<>>)>>)}

\* A page with one link more than processLinks has slots.
OverfullPage == [i \in 1..ProcessLinksSlots + 1 |-> "/about"]

\* The links and the document of the page a parallel Analyze has parsed:
\* every page of the given set with the plain document, and every document
\* with forms and headings on a page without a link.
PagesWithDocs(pages) ==
  [hrefs : pages, doc : {PlainDoc}] \cup [hrefs : {<<>>}, doc : PipelineDocs]

\* Parallel variant, analyzer.go 105-137: the result container, linkChan,
\* the two goroutines running collectLinks and processLinks, and the call
\* a.analyzeNodeParallel(doc, result) of the root.
PPipelineStart ==
  /\ variant = "parallel"
  /\ apc = "Extracting"
  /\ \E in \in PagesWithDocs(Pages) :
       /\ plLinks' = LinkRecords(targetURL, in.hrefs)
       /\ doc' = in.doc
  /\ plSent' = 0
  /\ plRecv' = 0
  /\ plClosed' = FALSE
  /\ plProc' = "range"
  /\ plSem' = 0
  /\ plWg' = 0
  /\ plW' = EmptyBag
  /\ presult' = [InternalLinks |-> 0, ExternalLinks |-> 0, InaccessibleLinks |-> 0]
  /\ plFalse' = 0
  /\ wPc' = [n \in 1..Len(doc') |-> IF n = 1 THEN "start" ELSE "unborn"]
  /\ wTmp' = [n \in 1..Len(doc') |-> 0]
  /\ wFormPc' = [n \in 1..Len(doc') |-> "none"]
  /\ wSeen' = [n \in 1..Len(doc') |-> FALSE]
  /\ wResult' = [HeadingCount |-> <<>>, Title |-> <<>>, HTMLVersion |-> "Unknown",
                 HasLoginForm |-> FALSE]
  /\ wFatal' = FALSE
  /\ apc' = "Walking"
  /\ UNCHANGED <<variant, targetURL, ctxAtCall, attempt, gets, sleeps, fetchStatus,
                 aLinks, aIdx, linkResults, checkLog, result, err>>
  /\ UNCHANGED <<envVars, lcVars, prVars, exVars, hdVars, rtVars, metrics>>

\* Parallel variant, line 137: a.analyzeNodeParallel(doc, result) returns,
\* the root invocation having passed its wg.Wait().
PWalk ==
  /\ ~wFatal
  /\ variant = "parallel"
  /\ apc = "Walking"
  /\ WalkReturned
  /\ apc' = "Joining"
  /\ UNCHANGED <<variant, targetURL, ctxAtCall, attempt, gets, sleeps, fetchStatus,
                 aLinks, aIdx, linkResults, checkLog, result, err>>
  /\ UNCHANGED <<envVars, lcVars, fnVars, plVars, metrics>>

AnalyzeNext ==
  \/ AStart
  \/ AFetchIssue
  \/ AFetchReturn
  \/ ABackoffDone
  \/ AParse
  \/ AExtract
  \/ ACheckLink
  \/ AChecksDone
  \/ AAssemble
  \/ PStart
  \/ PFetchReturn
  \/ PParse
  \/ SAnalyzeNode
  \/ SCheckLinks
  \/ PPipelineStart
  \/ WalkNext
  \/ PWalk
  \/ PJoin
  \/ PLNext
  \/ ACancel

\* A call of Analyze, of any of the three analyzers, with a context that may
\* already be cancelled: of the DefaultPageAnalyzer under any RetryAttempts
\* in 0..MaxRetry, of a PageAnalyzer (which holds a logger and a client, no
\* configuration) beside the configuration of NewRouter.
SpecAnalyzeInit ==
  /\ ctxDone \in BOOLEAN
  /\ AnalyzeInit
  /\ config \in [MaxConcurrentLinks : {RouterMaxConcurrentLinks},
                  RetryAttempts : IF variant = "default" THEN 0..MaxRetry
                                  ELSE {RouterRetryAttempts}]
  /\ LCIdle
  /\ PLIdle
  /\ FnIdle

SpecAnalyze == SpecAnalyzeInit /\ [][AnalyzeNext]_vars

\* The parallel Analyze at line 137: the page is fetched and parsed, the
\* collector and processLinks have been spawned and
\* analyzeNodeParallel(doc, result) is about to be called.
GateInit ==
  /\ variant = "parallel"
  /\ targetURL = "http://a.test/"
  /\ ctxAtCall = FALSE
  /\ apc = "Walking"
  /\ attempt = 0
  /\ gets = 1
  /\ sleeps = <<>>
  /\ fetchStatus = 200
  /\ aLinks = <<>>
  /\ aIdx = 1
  /\ linkResults = <<>>
  /\ checkLog = <<>>
  /\ result = NilResult
  /\ err = NilError
  /\ metrics = RequestCounted(NoMetrics)
  /\ \E in \in PagesWithDocs(GatePages) :
       /\ doc = in.doc
       /\ PLStarted(LinkRecords(targetURL, in.hrefs))
  /\ wPc = [n \in 1..Len(doc) |-> IF n = 1 THEN "start" ELSE "unborn"]
  /\ wTmp = [n \in 1..Len(doc) |-> 0]
  /\ wFormPc = [n \in 1..Len(doc) |-> "none"]
  /\ wSeen = [n \in 1..Len(doc) |-> FALSE]
  /\ wResult = [HeadingCount |-> <<>>, Title |-> <<>>, HTMLVersion |-> "Unknown",
                HasLoginForm |-> FALSE]
  /\ wFatal = FALSE

\* Either admission gate at work: a call of CheckLinksConcurrently, or the
\* link pipeline of a parallel Analyze.
SpecGateInit ==
  \/ SpecLCInit
  \/ /\ config = [MaxConcurrentLinks |-> RouterMaxConcurrentLinks,
                   RetryAttempts |-> RouterRetryAttempts]
     /\ ctxDone = FALSE
     /\ LCIdle
     /\ ProbeIdle /\ ExtractIdle /\ HandlerIdle /\ RetryIdle
     /\ GateInit

SpecGateNext ==
  \/ LCNext
  \/ PLNext
  \/ WalkNext
  \/ PWalk
  \/ PJoin

SpecGate == SpecGateInit /\ [][SpecGateNext]_vars

\* The page and the document of a parallel Analyze: each document with
\* forms and headings beside a page of one link at most, and the document
\* with one heading beside the page with more links than slots.
PipelineInputs ==
  [hrefs : ShortPages, doc : PipelineDocs]
    \cup [hrefs : {OverfullPage}, doc : {OneHeadingDoc}]

\* The parallel Analyze at line 137: the collector and processLinks have
\* been spawned and analyzeNodeParallel(doc, result) is about to be called.
SpecPipelineInit ==
  /\ config = [MaxConcurrentLinks |-> RouterMaxConcurrentLinks,
               RetryAttempts |-> RouterRetryAttempts]
  /\ ctxDone = FALSE
  /\ LCIdle /\ ProbeIdle /\ ExtractIdle /\ HandlerIdle /\ RetryIdle
  /\ variant = "parallel"
  /\ targetURL = "http://a.test/"
  /\ ctxAtCall = FALSE
  /\ attempt = 0
  /\ gets = 1
  /\ sleeps = <<>>
  /\ fetchStatus = 200
  /\ aLinks = <<>>
  /\ aIdx = 1
  /\ linkResults = <<>>
  /\ checkLog = <<>>
  /\ result = NilResult
  /\ err = NilError
  /\ metrics = RequestCounted(NoMetrics)
  /\ apc = "Walking"
  /\ \E in \in PipelineInputs :
       /\ doc = in.doc
       /\ PLStarted(LinkRecords(targetURL, in.hrefs))
  /\ wPc = [n \in 1..Len(doc) |-> IF n = 1 THEN "start" ELSE "unborn"]
  /\ wTmp = [n \in 1..Len(doc) |-> 0]
  /\ wFormPc = [n \in 1..Len(doc) |-> "none"]
  /\ wSeen = [n \in 1..Len(doc) |-> FALSE]
  /\ wResult = [HeadingCount |-> <<>>, Title |-> <<>>, HTMLVersion |-> "Unknown",
                HasLoginForm |-> FALSE]
  /\ wFatal = FALSE

PipelineNext ==
  \/ PLNext
  \/ WalkNext
  \/ PWalk
  \/ PJoin

\* Every goroutine that can run is scheduled in the end, and every probe
\* returns.
PipelineFairness == WF_vars(PipelineNext)

SpecPipeline == SpecPipelineInit /\ [][PipelineNext]_vars /\ PipelineFairness


\* Every goroutine Analyze spawned, directly or not, has finished: the
\* collector has closed linkChan, processLinks has returned, no link
\* goroutine is left, every invocation of analyzeNodeParallel and every
\* analyzeForm goroutine is done.
AllGoroutinesFinished ==
  /\ plClosed
  /\ plProc = "done"
  /\ plW = EmptyBag
  /\ plWg = 0
  /\ plSem = 0
  /\ plRecv = Len(plLinks)
  /\ \A n \in Nodes : wPc[n] = "done" /\ wFormPc[n] \in {"none", "done"}

\* A step of processLinks or of a link goroutine: everything on the
\* receiving side of linkChan.
PLConsumerStep ==
  \/ PLRecv
  \/ PLSpawn
  \/ \E g \in BagToSet(plW) : PLGoroutine(g)

\* C32: the parallel Analyze never deadlocks.  With every runnable
\* goroutine scheduled in the end and every probe returning, Analyze
\* eventually returns; when it has returned, every goroutine it spawned has
\* finished, and the result no longer changes.
ParallelAnalyzeReturnsWithAllJoined ==
  /\ [](apc = "Assembled" => AllGoroutinesFinished)
  /\ [][apc = "Assembled" => UNCHANGED <<presult, wResult, result, err>>]_vars
  /\ <>(apc = "Assembled")

\* What the runs that do not return have in common: the runtime has ended
\* the process for the concurrent map writes of the walk.  Before that, and
\* before Analyze returns, some goroutine can always take a step, and while
\* linkChan holds a link the receiving side can.
PipelineStuckOnlyByAbort ==
  /\ [](apc /= "Assembled" /\ ~wFatal => ENABLED PipelineNext)
  /\ [](plSent > plRecv /\ ~wFatal => ENABLED PLConsumerStep)
  /\ <>(apc = "Assembled" \/ wFatal)

====
